---- MODULE Spec2Model ----
(***************************************************************************)
(* Interprocedural detection of blocking (Deno.*Sync) operations.          *)
(*                                                                         *)
(* The module models the analyzers of the repository:                      *)
(*   - TypeScriptAnalyzer with guarded recursive marking, synchronous and  *)
(*     asynchronous traversal                     (src/unnamed/part_000)   *)
(*   - TypeScriptAnalyzer with unguarded recursive marking                 *)
(*                                                 (src/analyzer.ts)       *)
(*   - the fixed-point propagation over a global state                     *)
(*                                                 (src/eslint.config.ts)  *)
(*                                                                         *)
(* A source file is represented by what the analyzers read from its syntax *)
(* tree: the list of its import declarations and the depth-first sequence  *)
(* of the nodes the walkers react to (entering / leaving a named function  *)
(* declaration, a variable declaration initialised with a function, and    *)
(* call expressions by the shape of their callee).                         *)
(***************************************************************************)
EXTENDS Integers, Sequences, FiniteSets, TLC

VARIABLES
  files,      \* local file system: module path -> [imports, body]
  remote,     \* resolvable remote modules: jsr specifier -> body
  state,      \* TypeScriptAnalyzer.state (AnalyzerState)
  runs,       \* number of analyzeFile/analyzeFileSync calls made so far
  lastRoot,   \* argument of the most recent analyze call (Nowhere before any)
  walks,      \* paths walked by analyzeSourceFile during the most recent call
  overflow,   \* TRUE when a recursion exceeded the call stack
  tasks,      \* the analyzeFile calls of the asynchronous run, in start order
  visitedSet, \* the visited set shared by the calls of the asynchronous run
  reports,    \* context.report calls made while linting the most recent file
  passes,     \* the while-loop passes of the most recent propagateBlockingStatus call
  marking     \* the names the most recent top-level markAsBlocking call processed, in order

vars == <<files, remote, state, runs, lastRoot, walks, overflow, tasks, visitedSet,
          reports, passes, marking>>

----------------------------------------------------------------------------
(* Bounds of the model *)

MaxNodes == 3     \* call expressions and named import bindings in the program
MaxRuns == 2      \* analyze calls made on one analyzer instance
MaxStack == 4     \* frames of analyzeFileSync the call stack can hold
MaxAsyncNodes == 2  \* call expressions in a program analyzed asynchronously
MaxTasks == 4     \* analyzeFile calls that get past the visited test in one run
MaxMarkFrames == 6      \* frames of markAsBlocking the call stack can hold
MaxUnguardedNodes == 3  \* call expressions in a program given to analyzer.ts
MaxLintNodes == 3       \* call expressions and import bindings in a linted program
MaxFaultyNodes == 1     \* call expressions in a program with unreadable files
MaxPluginNodes == 2     \* call expressions and import bindings in a program linted by plugin.ts
MaxBodyLen == 5         \* syntax tree nodes of a file with nested declarations
MaxImports == 2         \* import declarations of a file with remote imports
MaxRemoteNodes == 1     \* call expressions of a file with remote imports
MaxOrderNodes == 2      \* call expressions in a program analyzed in two declaration orders
MaxPasses == 6          \* passes of the while loop of propagateBlockingStatus that are followed
MaxCallers == 3         \* entries of functionCalls when markAsBlocking is called on its own
MaxEntries == 2         \* entries of functionCalls given to propagateBlockingStatus
MaxSiteNodes == 4       \* call expressions in a one-file program linted by plugin.ts
MaxRuleLen == 6         \* nodes of a file linted by the no-blocking rule of index.js
MaxNamespaceNodes == 2  \* call expressions in a function body with member-access callees
MaxLocationNodes == 2   \* call expressions in a function body of a file analyzed for locations
MaxAliasNodes == 3      \* call expressions in a program with renamed imports linted by plugin.ts

----------------------------------------------------------------------------
(* Names, paths and import specifiers *)

Names == {"f", "g", "h"}
NameOrder == <<"f", "g", "h">>
Undefined == ""

\* An absolute path of a local file
Path(stem, ext) == [scheme |-> "/", stem |-> stem, ext |-> ext]
\* An import specifier as written in the source: "./B", "./B.ts", "jsr:R", "npm:N"
Specifier(scheme, stem, ext) == [scheme |-> scheme, stem |-> stem, ext |-> ext]

A == Path("A", ".ts")
B == Path("B", ".ts")
C == Path("C", ".ts")
Modules == {A, B}
Nowhere == Path("", "")
JsrR == Specifier("jsr:", "R", "")
JsrQ == Specifier("jsr:", "Q", "")
NpmN == Specifier("npm:", "N", "")

\* normalizeImportPath: a specifier that does not start with "." is returned
\* as it is; a relative one is resolved against the directory of the current
\* file (all files of the model share one directory) and gets ".ts" appended
\* when it has no extension.
normalizeImportPath(importSpecifier, currentFile) ==
  IF importSpecifier.scheme # "."
  THEN importSpecifier
  ELSE Path(importSpecifier.stem,
            IF importSpecifier.ext # "" THEN importSpecifier.ext ELSE ".ts")

----------------------------------------------------------------------------
(* Syntax tree nodes, in depth-first order *)

Ev(op, name) == [op |-> op, name |-> name]
\* "enter"  : FunctionDeclaration / MethodDeclaration with an identifier name
\* "exit"   : the walk leaves that declaration
\* "var"    : VariableDeclaration initialised with a function/arrow expression
\* "endvar" : the walk leaves that variable declaration
\* "sync"   : CallExpression Deno.<x>Sync(...)
\* "call"   : CallExpression with a bare identifier callee
\* "member" : CallExpression with callee <obj>.<name>
CallNodes ==
  {Ev("sync", Undefined)} \cup {Ev("call", n) : n \in Names}
                          \cup {Ev("member", n) : n \in Names}

SeqsUpTo(S, n) == UNION {[1..k -> S] : k \in 0..n}

FunctionDeclaration(name, calls) ==
  <<Ev("enter", name)>> \o calls \o <<Ev("exit", Undefined)>>

----------------------------------------------------------------------------
(* Map helpers: a Map is a function on the set of its keys; functionCalls  *)
(* keeps insertion order because markAsBlocking iterates over its entries. *)

EmptyMap == [k \in {} |-> {}]
MapSet(m, k, v) == [x \in DOMAIN m \cup {k} |-> IF x = k THEN v ELSE m[x]]
MapGetOr(m, k, default) == IF k \in DOMAIN m THEN m[k] ELSE default

Callers(functionCalls) == {functionCalls[i].caller : i \in DOMAIN functionCalls}
CalleesOf(functionCalls, caller) ==
  UNION {functionCalls[i].callees :
           i \in {j \in DOMAIN functionCalls : functionCalls[j].caller = caller}}
\* the call edges as a set of pairs
Edges(functionCalls) ==
  UNION {{<<functionCalls[i].caller, c>> : c \in functionCalls[i].callees} :
           i \in DOMAIN functionCalls}

\* private state: AnalyzerState = { ... }
EmptyState ==
  [blockingFunctions |-> {},
   importMap         |-> EmptyMap,
   analyzedFiles     |-> EmptyMap,
   functionCalls     |-> <<>>,
   remoteModules     |-> EmptyMap,
   functionLocations |-> EmptyMap]

----------------------------------------------------------------------------
(* TypeScriptAnalyzer (src/unnamed/part_000) *)

addFunctionCall(S, caller, callee) ==
  IF caller \in Callers(S.functionCalls)
  THEN [S EXCEPT !.functionCalls =
          [i \in DOMAIN @ |->
             IF @[i].caller = caller
             THEN [@[i] EXCEPT !.callees = @ \cup {callee}]
             ELSE @[i]]]
  ELSE [S EXCEPT !.functionCalls =
          Append(@, [caller |-> caller, callees |-> {callee}])]

\* the test !functionLocations.has(caller) left out
InheritLocation_always(S, caller, funcName) ==
  IF funcName \in DOMAIN S.functionLocations
  THEN [S EXCEPT !.functionLocations =
          MapSet(@, caller, S.functionLocations[funcName])]
  ELSE S

\* "If the caller doesn't have a location, inherit from the callee"
InheritLocation(S, caller, funcName) ==
  IF caller \notin DOMAIN S.functionLocations
     /\ funcName \in DOMAIN S.functionLocations
  THEN [S EXCEPT !.functionLocations =
          MapSet(@, caller, S.functionLocations[funcName])]
  ELSE S

RECURSIVE markAsBlocking(_, _, _)
RECURSIVE MarkCallers(_, _, _, _)

\* markAsBlocking(funcName, visited): result is the state and the (shared,
\* mutable) visited set
markAsBlocking(S, funcName, visited) ==
  IF funcName \in visited
  THEN [s |-> S, visited |-> visited]
  ELSE MarkCallers([S EXCEPT !.blockingFunctions = @ \cup {funcName}],
                   funcName, visited \cup {funcName}, 1)

\* for (const [caller, callees] of this.state.functionCalls.entries())
MarkCallers(S, funcName, visited, i) ==
  IF i > Len(S.functionCalls)
  THEN [s |-> S, visited |-> visited]
  ELSE IF funcName \in S.functionCalls[i].callees
       THEN LET caller == S.functionCalls[i].caller
                r == markAsBlocking(S, caller, visited)
            IN  MarkCallers(InheritLocation(r.s, caller, funcName),
                            funcName, r.visited, i + 1)
       ELSE MarkCallers(S, funcName, visited, i + 1)

\* the call left out
Mark_nothing(S, funcName) == S

\* a call this.markAsBlocking(name) with the default visited = new Set()
Mark(S, funcName) == markAsBlocking(S, funcName, {}).s

\* if (this.state.blockingFunctions.has(expr.text)) markAsBlocking(current)
MarkIfCalleeBlocking(S, currentFunction, callee) ==
  IF callee \in S.blockingFunctions THEN Mark(S, currentFunction) ELSE S

SetLocation(S, name, filePath, line) ==
  [S EXCEPT !.functionLocations =
     MapSet(@, name, [file |-> filePath, line |-> line])]

\* One call of visit(node) up to ts.forEachChild, or the part after it for
\* the nodes that close a declaration.  W is the walker's state: the
\* analyzer state, the local blockingFuncs set and currentFunction.
visit(W, node, filePath, line) ==
  CASE node.op \in {"enter", "var"} ->
         [W EXCEPT !.currentFunction = node.name,
                   !.s = SetLocation(@, node.name, filePath, line)]
    [] node.op = "exit" ->
         [W EXCEPT !.currentFunction = Undefined]
    [] node.op = "endvar" -> W
    [] node.op = "sync" ->
         IF W.currentFunction = Undefined THEN W
         ELSE [W EXCEPT !.blockingFuncs = @ \cup {W.currentFunction},
                        !.s = Mark(@, W.currentFunction)]
    [] node.op = "call" ->
         IF W.currentFunction = Undefined THEN W
         ELSE [W EXCEPT !.s =
                 MarkIfCalleeBlocking(
                   addFunctionCall(@, W.currentFunction, node.name),
                   W.currentFunction, node.name)]
    [] node.op = "member" ->
         IF W.currentFunction = Undefined THEN W
         ELSE [W EXCEPT !.s = addFunctionCall(@, W.currentFunction, node.name)]

RECURSIVE VisitFrom(_, _, _, _)
VisitFrom(W, body, filePath, i) ==
  IF i > Len(body) THEN W
  ELSE VisitFrom(visit(W, body[i], filePath, i), body, filePath, i + 1)

\* analyzeSourceFile(sourceFile, filePath, visited): the state afterwards and
\* the returned set of directly blocking functions
analyzeSourceFile(S, body, filePath) ==
  LET W == VisitFrom([s |-> S, blockingFuncs |-> {},
                      currentFunction |-> Undefined], body, filePath, 1)
  IN  [s |-> W.s, blockingFuncs |-> W.blockingFuncs]

\* fetchAndAnalyzeRemoteModuleSync(url); resolving or fetching fails for a
\* specifier that is not in remote
fetchAndAnalyzeRemoteModuleSync(S, url) ==
  IF url \in DOMAIN S.remoteModules
  THEN [s |-> S, blockingFuncs |-> S.remoteModules[url].blockingFunctions]
  ELSE IF url \notin DOMAIN remote
       THEN [s |-> S, blockingFuncs |-> {}]
       ELSE LET S1 == [S EXCEPT !.remoteModules =
                         MapSet(@, url, [url |-> url, blockingFunctions |-> {}])]
                r  == analyzeSourceFile(S1, remote[url], url)
            IN  [s |-> [r.s EXCEPT !.remoteModules[url].blockingFunctions =
                                       r.blockingFuncs],
                 blockingFuncs |-> r.blockingFuncs]

\* the forEach over the named bindings of a jsr: import
RECURSIVE BindRemote(_, _, _, _, _)
BindRemote(S, bindings, source, blockingFuncs, i) ==
  IF i > Len(bindings) THEN S
  ELSE LET localName    == bindings[i].local
           importedName == bindings[i].imported
           S1 == [S EXCEPT !.importMap =
                    MapSet(@, localName,
                           [source |-> source, name |-> importedName])]
           S2 == IF importedName \in blockingFuncs
                 THEN SetLocation(Mark(S1, localName), localName, source, 1)
                 ELSE S1
       IN  BindRemote(S2, bindings, source, blockingFuncs, i + 1)

\* the failed read leaving an entry behind
Caught_recorded(R, filePath) ==
  [R EXCEPT !.s.analyzedFiles = MapSet(@, filePath, {})]

\* catch (error) { console.error(...); return new Set(); }
Caught(R, filePath) == R

\* the cycle guard left out
AlreadyVisited_never(filePath, visited) == FALSE

\* if (visited.has(absolutePath)) return ...
AlreadyVisited(filePath, visited) == filePath \in visited

\* the early return left out
NotYetSupported_never(source) == FALSE

\* if (source.startsWith("npm:")) { console.warn(...); return; }
NotYetSupported(source) == source.scheme = "npm:"

RECURSIVE analyzeFileSync(_, _, _)
RECURSIVE analyzeImports(_, _, _, _)

\* analyzeFileSync(filePath, visited).  R is the run: the analyzer state, the
\* shared visited set, the paths walked so far and the stack depth.
analyzeFileSync(R, filePath, depth) ==
  IF depth > MaxStack THEN [R EXCEPT !.overflow = TRUE]
  ELSE IF AlreadyVisited(filePath, R.visited) THEN R
  ELSE LET R1 == [R EXCEPT !.visited = @ \cup {filePath}]
       IN  IF filePath \notin DOMAIN files
           THEN Caught(R1, filePath)   \* Deno.readTextFileSync throws
           ELSE LET R2 == analyzeImports(R1, filePath, 1, depth)
                    r  == analyzeSourceFile(R2.s, files[filePath].body, filePath)
                IN  [R2 EXCEPT
                       !.s = [r.s EXCEPT !.analyzedFiles =
                                MapSet(@, filePath, r.blockingFuncs)],
                       !.walks = Append(@, filePath)]

\* ts.forEachChild(sourceFile, analyzeImports)
analyzeImports(R, filePath, i, depth) ==
  IF i > Len(files[filePath].imports) THEN R
  ELSE LET node   == files[filePath].imports[i]
           source == node.source
       IN  IF NotYetSupported(source)
           THEN analyzeImports(R, filePath, i + 1, depth)
           ELSE IF source.scheme \in {"jsr:", "npm:"}
           THEN LET r == fetchAndAnalyzeRemoteModuleSync(R.s, source)
                IN  analyzeImports(
                      [R EXCEPT !.s = BindRemote(r.s, node.bindings, source,
                                                 r.blockingFuncs, 1)],
                      filePath, i + 1, depth)
           ELSE IF source.scheme = "."
           THEN analyzeImports(
                  analyzeFileSync(R, normalizeImportPath(source, filePath),
                                  depth + 1),
                  filePath, i + 1, depth)
           ELSE analyzeImports(R, filePath, i + 1, depth)

\* every call starting from an emptied blocking set
RunSync_fresh(S, root) ==
  analyzeFileSync([s |-> [S EXCEPT !.blockingFunctions = {}], visited |-> {},
                   walks |-> <<>>, overflow |-> FALSE], root, 1)

\* a top-level call analyzer.analyzeFileSync(root) on the instance
RunSync(S, root) ==
  analyzeFileSync([s |-> S, visited |-> {}, walks |-> <<>>, overflow |-> FALSE],
                  root, 1)

\* isBlockingFunction(name)
isBlockingFunction(S, name) == name \in S.blockingFunctions

----------------------------------------------------------------------------
(* The programs under analysis *)

\* f is declared in A.ts, g and then h in B.ts.  The analyzers key everything
\* by the bare name, so a name has one declaration.
HomeOf == [f |-> A, g |-> B, h |-> B]
NameIndex == [f |-> 1, g |-> 2, h |-> 3]

\* a call expression placed in the body of the function owner; the programs
\* have no function that names itself as a callee
OwnedCall(owner, node) == [owner |-> owner, node |-> node]
OwnedCalls ==
  {oc \in {OwnedCall(n, c) : n \in Names, c \in CallNodes} :
     oc.node.name # oc.owner}

\* the calls are listed function by function, and a function does not
\* contain the same call expression twice
Grouped(calls) ==
  /\ \A i \in 1..(Len(calls) - 1) :
       NameIndex[calls[i].owner] <= NameIndex[calls[i + 1].owner]
  /\ \A i, j \in DOMAIN calls : calls[i] = calls[j] => i = j

CallsOf(calls, name) ==
  LET own == SelectSeq(calls, LAMBDA c : c.owner = name)
  IN  [i \in DOMAIN own |-> own[i].node]

RECURSIVE BodyFrom(_, _, _, _)
BodyFrom(home, calls, m, i) ==
  IF i > Len(NameOrder) THEN <<>>
  ELSE (IF home[NameOrder[i]] = m
        THEN FunctionDeclaration(NameOrder[i], CallsOf(calls, NameOrder[i]))
        ELSE <<>>) \o BodyFrom(home, calls, m, i + 1)

\* import { imported as local } from source
Binding(local, imported) == [local |-> local, imported |-> imported]
Import(source, bindings) == [source |-> source, bindings |-> bindings]

\* The import lists a module can have: nothing, or one import of the other
\* module, bare or with one named binding of a function declared there; the
\* local name is not one the importing module declares itself.
ImportLists(m) ==
  {<<>>} \cup
  UNION {{<<Import(Specifier(".", o.stem, ""), b)>> :
            b \in {<<>>} \cup
                  {<<Binding(l, x)>> :
                     l \in {n \in Names : HomeOf[n] # m},
                     x \in {n \in Names : HomeOf[n] = o}}} :
           o \in Modules \ {m}}

NumBindings(imports) ==
  IF imports = <<>> THEN 0 ELSE Len(imports[1].bindings)

\* the program written with the given calls and imports
Program(home, calls, imps) ==
  [m \in DOMAIN imps |->
     [imports |-> imps[m], body |-> BodyFrom(home, calls, m, 1)]]

----------------------------------------------------------------------------
(* Synchronous use of one analyzer instance *)

Init ==
  /\ \E calls \in SeqsUpTo(OwnedCalls, MaxNodes) :
       /\ Grouped(calls)
       /\ \E imps \in [Modules -> UNION {ImportLists(m) : m \in Modules}] :
            /\ \A m \in Modules : imps[m] \in ImportLists(m)
            /\ Len(calls) + NumBindings(imps[A]) + NumBindings(imps[B])
                 <= MaxNodes
            /\ files = Program(HomeOf, calls, imps)
  /\ remote = EmptyMap
  /\ state = EmptyState
  /\ runs = 0
  /\ lastRoot = Nowhere
  /\ walks = <<>>
  /\ overflow = FALSE
  /\ tasks = <<>>
  /\ visitedSet = {}
  /\ reports = <<>>
  /\ passes = <<>>
  /\ marking = <<>>

AnalyzeFileSync(root) ==
  /\ runs < MaxRuns
  /\ LET R == RunSync(state, root)
     IN  /\ state' = R.s
         /\ walks' = R.walks
         /\ overflow' = R.overflow
  /\ runs' = runs + 1
  /\ lastRoot' = root
  /\ UNCHANGED <<marking, passes, reports, files, remote, tasks, visitedSet>>

Next ==
  \/ \E root \in Modules : AnalyzeFileSync(root)

Spec == Init /\ [][Next]_vars

----------------------------------------------------------------------------
(* The asynchronous traversal analyzeFile (src/unnamed/part_000)            *)
(*                                                                         *)
(* A call of analyzeFile that gets past the visited test is a task.  It    *)
(* runs up to `await Deno.readTextFile`, then, when the read completes,    *)
(* through analyzeImports up to `await Promise.all(importPromises)`, and   *)
(* when every promise of the list is settled it walks its own body.  A     *)
(* call for a path that is in visited returns at once, so its promise is   *)
(* already resolved when the caller awaits it.                             *)

Task(path, parent) ==
  [path |-> path, pc |-> "reading", parent |-> parent, pending |-> {},
   bindings |-> <<>>]

\* if (this.state.remoteModules.has(url)) return ...blockingFunctions
Cached(url) == url \in DOMAIN state.remoteModules

\* A call of fetchAndAnalyzeRemoteModule(url) with the .then callback that
\* binds the names of the import declaration.  The call either returns the
\* stored set at once, and the callback is due as a microtask, or runs up to
\* its first await.
Fetch(url, parent, bindings) ==
  [path |-> url, pc |-> IF Cached(url) THEN "cached" ELSE "fetching",
   parent |-> parent, pending |-> {}, bindings |-> bindings]

\* the test left out
InFlightOrDone_never(absolutePath, seen) == FALSE

\* if (visited.has(absolutePath)) return this.state.analyzedFiles.get(...) || new Set()
InFlightOrDone(absolutePath, seen) == absolutePath \in seen

\* ts.forEachChild(sourceFile, analyzeImports) of task t: every relative
\* import calls this.analyzeFile(importPath, visited), which runs to its
\* first await, and every jsr: import calls fetchAndAnalyzeRemoteModule.
\* T is the task list and the visited set.
RECURSIVE startImports(_, _, _)
startImports(T, t, i) ==
  LET filePath == T.tasks[t].path
  IN  IF i > Len(files[filePath].imports) THEN T
      ELSE LET node       == files[filePath].imports[i]
               source     == node.source
               importPath == normalizeImportPath(source, filePath)
               started(child, seen) ==
                 [tasks |->
                    Append([T.tasks EXCEPT ![t].pending =
                              @ \cup {Len(T.tasks) + 1}],
                           child),
                  visited |-> seen]
           IN  IF NotYetSupported(source) \/ Len(T.tasks) >= MaxTasks
               THEN startImports(T, t, i + 1)
               ELSE IF source.scheme \in {"jsr:", "npm:"}
               THEN startImports(
                      started(Fetch(source, t, node.bindings), T.visited),
                      t, i + 1)
               ELSE IF source.scheme # "."
                       \/ InFlightOrDone(importPath, T.visited)
               THEN startImports(T, t, i + 1)
               ELSE startImports(
                      started(Task(importPath, t),
                              T.visited \cup {importPath}),
                      t, i + 1)

Settled(t) == tasks[t].pc \in {"done", "failed"}

\* await Promise.all(importPromises) of task t can continue
CanWalk(t) ==
  /\ tasks[t].pc = "awaiting"
  /\ \A c \in tasks[t].pending : Settled(c)

\* promise continuations run before the next I/O completion is delivered
MicrotasksPending ==
  \E t \in DOMAIN tasks : CanWalk(t) \/ tasks[t].pc = "cached"

\* analyzer.analyzeFile(root) on a new instance, up to its first await
AnalyzeFile(root) ==
  /\ runs = 0
  /\ tasks = <<>>
  /\ tasks' = <<Task(root, 0)>>
  /\ visitedSet' = {root}
  /\ runs' = 1
  /\ lastRoot' = root
  /\ UNCHANGED <<marking, passes, reports, files, remote, state, walks, overflow>>

\* the read of task t completes: the imports are started (every import of
\* the programs below resolves to a file that exists)
ReadCompletes(t) ==
  /\ tasks[t].pc = "reading"
  /\ ~MicrotasksPending
  /\ tasks[t].path \in DOMAIN files
  /\ LET T == startImports([tasks |-> tasks, visited |-> visitedSet], t, 1)
     IN  /\ tasks' = [T.tasks EXCEPT ![t].pc = "awaiting"]
         /\ visitedSet' = T.visited
  /\ UNCHANGED <<marking, passes, reports, files, remote, state, runs, lastRoot, walks, overflow>>

\* every import promise of task t is settled: analyzeSourceFile, then
\* analyzedFiles.set, and the call returns
WalkBody(t) ==
  /\ CanWalk(t)
  /\ LET filePath == tasks[t].path
         r == analyzeSourceFile(state, files[filePath].body, filePath)
     IN  state' = [r.s EXCEPT !.analyzedFiles =
                     MapSet(@, filePath, r.blockingFuncs)]
  /\ walks' = Append(walks, tasks[t].path)
  /\ tasks' = [tasks EXCEPT ![t].pc = "done"]
  /\ UNCHANGED <<marking, passes, reports, files, remote, runs, lastRoot, overflow, visitedSet>>

\* The programs analyzed asynchronously: f in A.ts, g in B.ts, h in C.ts;
\* A.ts has up to two imports, B.ts and C.ts up to one, all bare.
HomeOfAsync == [f |-> A, g |-> B, h |-> C]
AsyncModules == {A, B, C}
AsyncRoots == {A}

BareImport(o) == Import(Specifier(".", o.stem, ""), <<>>)

AsyncImportLists(m) ==
  {<<>>} \cup {<<BareImport(o)>> : o \in AsyncModules \ {m}}
         \cup (IF m \in AsyncRoots
               THEN {<<BareImport(o1), BareImport(o2)>> :
                       o1 \in AsyncModules \ {m}, o2 \in AsyncModules \ {m}}
               ELSE {})

InitAsync ==
  /\ \E calls \in SeqsUpTo(OwnedCalls, MaxAsyncNodes) :
       /\ Grouped(calls)
       /\ \E imps \in [AsyncModules ->
                        UNION {AsyncImportLists(m) : m \in AsyncModules}] :
            /\ \A m \in AsyncModules : imps[m] \in AsyncImportLists(m)
            /\ files = Program(HomeOfAsync, calls, imps)
  /\ remote = EmptyMap
  /\ state = EmptyState
  /\ runs = 0
  /\ lastRoot = Nowhere
  /\ walks = <<>>
  /\ overflow = FALSE
  /\ tasks = <<>>
  /\ visitedSet = {}
  /\ reports = <<>>
  /\ passes = <<>>
  /\ marking = <<>>

NextAsync ==
  \/ \E root \in AsyncRoots : AnalyzeFile(root)
  \/ \E t \in DOMAIN tasks : ReadCompletes(t)
  \/ \E t \in DOMAIN tasks : WalkBody(t)

SpecAsync == InitAsync /\ [][NextAsync]_vars

----------------------------------------------------------------------------
(* TypeScriptAnalyzer with unguarded marking (src/analyzer.ts)              *)
(*                                                                         *)
(* markAsBlocking takes no visited set here.  A recursion that outgrows    *)
(* the call stack throws a RangeError, which unwinds through visit and     *)
(* analyzeSourceFile to the catch of analyzeFile.  M is the analyzer state *)
(* together with the flag that the error is being thrown.                  *)

RECURSIVE markAsBlockingUnguarded(_, _, _)
RECURSIVE MarkCallersUnguarded(_, _, _, _)

\* markAsBlocking(funcName), entered as frame number depth
markAsBlockingUnguarded(M, funcName, depth) ==
  IF depth > MaxMarkFrames
  THEN [M EXCEPT !.overflow = TRUE]
  ELSE MarkCallersUnguarded(
         [M EXCEPT !.s.blockingFunctions = @ \cup {funcName}],
         funcName, depth, 1)

\* for (const [caller, callees] of this.state.functionCalls.entries())
MarkCallersUnguarded(M, funcName, depth, i) ==
  IF M.overflow \/ i > Len(M.s.functionCalls) THEN M
  ELSE IF funcName \in M.s.functionCalls[i].callees
       THEN MarkCallersUnguarded(
              markAsBlockingUnguarded(M, M.s.functionCalls[i].caller, depth + 1),
              funcName, depth, i + 1)
       ELSE MarkCallersUnguarded(M, funcName, depth, i + 1)

\* visit(node) of analyzer.ts; W also carries the overflow flag
visitUnguarded(W, node) ==
  LET marked == markAsBlockingUnguarded([s |-> W.s, overflow |-> FALSE],
                                        W.currentFunction, 1)
      added  == addFunctionCall(W.s, W.currentFunction, node.name)
      markedAfterAdd ==
        markAsBlockingUnguarded([s |-> added, overflow |-> FALSE],
                                W.currentFunction, 1)
  IN  CASE node.op \in {"enter", "var"} ->
             [W EXCEPT !.currentFunction = node.name]
        [] node.op = "exit" ->
             [W EXCEPT !.currentFunction = Undefined]
        [] node.op = "endvar" -> W
        [] node.op = "sync" ->
             IF W.currentFunction = Undefined THEN W
             ELSE [W EXCEPT !.blockingFuncs = @ \cup {W.currentFunction},
                            !.s = marked.s,
                            !.overflow = marked.overflow]
        [] node.op = "call" ->
             IF W.currentFunction = Undefined THEN W
             ELSE IF node.name \in added.blockingFunctions
                  THEN [W EXCEPT !.s = markedAfterAdd.s,
                                 !.overflow = markedAfterAdd.overflow]
                  ELSE [W EXCEPT !.s = added]
        [] node.op = "member" ->
             IF W.currentFunction = Undefined THEN W
             ELSE [W EXCEPT !.s = added]

RECURSIVE VisitFromUnguarded(_, _, _)
VisitFromUnguarded(W, body, i) ==
  IF W.overflow \/ i > Len(body) THEN W
  ELSE VisitFromUnguarded(visitUnguarded(W, body[i]), body, i + 1)

\* analyzeSourceFile(sourceFile, filePath, visited) of analyzer.ts
analyzeSourceFileUnguarded(S, body) ==
  VisitFromUnguarded([s |-> S, blockingFuncs |-> {},
                      currentFunction |-> Undefined, overflow |-> FALSE],
                     body, 1)

\* analyzeFile of analyzer.ts starts, reads and collects imports as the one
\* of part_000 does (AnalyzeFile, ReadCompletes).  After Promise.all it
\* calls analyzeSourceFile; a RangeError thrown there is caught, the call
\* returns new Set() and analyzedFiles gets no entry.
WalkBodyUnguarded(t) ==
  /\ CanWalk(t)
  /\ LET filePath == tasks[t].path
         W == analyzeSourceFileUnguarded(state, files[filePath].body)
     IN  /\ state' = IF W.overflow THEN W.s
                     ELSE [W.s EXCEPT !.analyzedFiles =
                             MapSet(@, filePath, W.blockingFuncs)]
         /\ overflow' = (overflow \/ W.overflow)
         /\ tasks' = [tasks EXCEPT ![t].pc =
                        IF W.overflow THEN "failed" ELSE "done"]
  /\ walks' = Append(walks, tasks[t].path)
  /\ UNCHANGED <<marking, passes, reports, files, remote, runs, lastRoot, visitedSet>>

\* The programs: f in A.ts, g and h in B.ts, bare-identifier and Deno.*Sync
\* calls, a function may call itself; each module may import the other.
PlainCalls ==
  {OwnedCall(n, c) : n \in Names,
                     c \in {Ev("sync", Undefined)} \cup {Ev("call", x) : x \in Names}}

BareImportLists(m) ==
  {<<>>} \cup {<<BareImport(o)>> : o \in Modules \ {m}}

InitUnguarded ==
  /\ \E calls \in SeqsUpTo(PlainCalls, MaxUnguardedNodes) :
       /\ Grouped(calls)
       /\ \E imps \in [Modules -> UNION {BareImportLists(m) : m \in Modules}] :
            /\ \A m \in Modules : imps[m] \in BareImportLists(m)
            /\ files = Program(HomeOf, calls, imps)
  /\ remote = EmptyMap
  /\ state = EmptyState
  /\ runs = 0
  /\ lastRoot = Nowhere
  /\ walks = <<>>
  /\ overflow = FALSE
  /\ tasks = <<>>
  /\ visitedSet = {}
  /\ reports = <<>>
  /\ passes = <<>>
  /\ marking = <<>>

NextUnguarded ==
  \/ \E root \in Modules : AnalyzeFile(root)
  \/ \E t \in DOMAIN tasks : ReadCompletes(t)
  \/ \E t \in DOMAIN tasks : WalkBodyUnguarded(t)

SpecUnguarded == InitUnguarded /\ [][NextUnguarded]_vars

----------------------------------------------------------------------------
(* The lint rule over a process-wide state (src/eslint.config.ts)          *)

\* const globalState = { ... }
EmptyGlobalState ==
  [blockingFunctions |-> {},
   importMap         |-> EmptyMap,
   analyzedFiles     |-> EmptyMap,
   analyzedPaths     |-> {},
   functionCalls     |-> <<>>]

\* resolveImportPath -> normalizeImportPath of eslint.config.ts: ".ts" is
\* appended unless the resolved path already ends with ".ts"
resolveImportPath(importSpecifier, currentFile) ==
  IF importSpecifier.scheme # "."
  THEN importSpecifier
  ELSE IF importSpecifier.ext \in {"", ".ts"}
       THEN Path(importSpecifier.stem, ".ts")
       ELSE Path(<<importSpecifier.stem, importSpecifier.ext>>, ".ts")

\* visit(node) of findBlockingFunctionsInTypescript: only a named
\* FunctionDeclaration sets currentFunction, only a bare-identifier call
\* records an edge
visitGlobal(W, node) ==
  CASE node.op = "enter" ->
         [W EXCEPT !.currentFunction = node.name,
                   !.g.functionCalls =
                      IF node.name \in Callers(@) THEN @
                      ELSE Append(@, [caller |-> node.name, callees |-> {}])]
    [] node.op = "exit" ->
         [W EXCEPT !.currentFunction = Undefined]
    [] node.op = "sync" ->
         IF W.currentFunction = Undefined THEN W
         ELSE [W EXCEPT !.blockingFuncs = @ \cup {W.currentFunction},
                        !.g.blockingFunctions = @ \cup {W.currentFunction}]
    [] node.op = "call" ->
         IF W.currentFunction = Undefined THEN W
         ELSE [W EXCEPT !.g.functionCalls =
                 [i \in DOMAIN @ |->
                    IF @[i].caller = W.currentFunction
                    THEN [@[i] EXCEPT !.callees = @ \cup {node.name}]
                    ELSE @[i]]]
    [] OTHER -> W

RECURSIVE VisitFromGlobal(_, _, _)
VisitFromGlobal(W, body, i) ==
  IF i > Len(body) THEN W
  ELSE VisitFromGlobal(visitGlobal(W, body[i]), body, i + 1)

\* findBlockingFunctionsInTypescript(sourceFile): the global state
\* afterwards and the returned set
findBlockingFunctionsInTypescript(G, body) ==
  LET W == VisitFromGlobal([g |-> G, blockingFuncs |-> {},
                            currentFunction |-> Undefined], body, 1)
  IN  [g |-> W.g, blockingFuncs |-> W.blockingFuncs]

\* importInfo of callee names a function that is blocking in its source
ImportedBlocking(G, name) ==
  /\ name \in DOMAIN G.importMap
  /\ G.importMap[name].source \in DOMAIN G.analyzedFiles
  /\ G.importMap[name].name \in G.analyzedFiles[G.importMap[name].source]

\* a name counted as new whether or not the set has it
IsNew_always(G, name) == TRUE

\* if (!globalState.blockingFunctions.has(name))
IsNew(G, name) == name \notin G.blockingFunctions

\* "First pass: check direct blocking functions", entry by entry.  K is the
\* global state and the local flag changed.
RECURSIVE DirectPass(_, _)
DirectPass(K, i) ==
  IF i > Len(K.g.functionCalls) THEN K
  ELSE LET caller  == K.g.functionCalls[i].caller
           callees == K.g.functionCalls[i].callees
       IN  IF IsNew(K.g, caller)
              /\ callees \cap K.g.blockingFunctions # {}
           THEN DirectPass(
                  [g |-> [K.g EXCEPT !.blockingFunctions = @ \cup {caller}],
                   changed |-> TRUE],
                  i + 1)
           ELSE DirectPass(K, i + 1)

\* the second pass left out
ImportPass_skipped(K) == K

\* "Second pass: check imported functions"
ImportPass(K) ==
  LET hits == {localName \in DOMAIN K.g.importMap :
                 ImportedBlocking(K.g, localName) /\ IsNew(K.g, localName)}
  IN  [g |-> [K.g EXCEPT !.blockingFunctions = @ \cup hits],
       changed |-> K.changed \/ hits # {}]

\* "Third pass: check function calls that use imported functions"
ImportedCalleePass(K) ==
  LET hits == {K.g.functionCalls[i].caller :
                 i \in {j \in DOMAIN K.g.functionCalls :
                          /\ IsNew(K.g, K.g.functionCalls[j].caller)
                          /\ \E callee \in K.g.functionCalls[j].callees :
                               ImportedBlocking(K.g, callee)}}
  IN  [g |-> [K.g EXCEPT !.blockingFunctions = @ \cup hits],
       changed |-> K.changed \/ hits # {}]

\* while (changed) { changed = false; three passes }: the global state
\* afterwards and, for each pass made, the flag changed at its end and the
\* names it added.  The loop is followed for MaxPasses passes.
RECURSIVE Propagation(_, _)
Propagation(G, trace) ==
  LET K == ImportedCalleePass(ImportPass(
             DirectPass([g |-> G, changed |-> FALSE], 1)))
      t == Append(trace, [changed |-> K.changed,
                          added |-> K.g.blockingFunctions
                                      \ G.blockingFunctions])
  IN  IF K.changed /\ Len(t) < MaxPasses
      THEN Propagation(K.g, t)
      ELSE [g |-> K.g, passes |-> t]

\* propagateBlockingStatus()
propagateBlockingStatus(G) == Propagation(G, <<>>).g

\* "First collect all imports": the local map imports (in insertion order)
\* and the writes to globalState.importMap.  K is the global state and the
\* list of [localName, importPath] entries.
RECURSIVE CollectBindings(_, _, _, _)
CollectBindings(K, bindings, importPath, i) ==
  IF i > Len(bindings) THEN K
  ELSE LET localName == bindings[i].local
           kept == SelectSeq(K.imports, LAMBDA e : e.localName = localName)
           entry == [localName |-> localName, importPath |-> importPath]
       IN  CollectBindings(
             [g |-> [K.g EXCEPT !.importMap =
                       MapSet(@, localName,
                              [source |-> importPath,
                               name |-> bindings[i].imported])],
              imports |->
                IF kept = <<>> THEN Append(K.imports, entry)
                ELSE [j \in DOMAIN K.imports |->
                        IF K.imports[j].localName = localName THEN entry
                        ELSE K.imports[j]]],
             bindings, importPath, i + 1)

RECURSIVE CollectImports(_, _, _)
CollectImports(K, filePath, i) ==
  IF i > Len(files[filePath].imports) THEN K
  ELSE LET node == files[filePath].imports[i]
       IN  IF node.source.scheme = "."
           THEN CollectImports(
                  CollectBindings(K, node.bindings,
                                  resolveImportPath(node.source, filePath), 1),
                  filePath, i + 1)
           ELSE CollectImports(K, filePath, i + 1)

RECURSIVE analyzeFileAndImports(_, _)
RECURSIVE AnalyzeImported(_, _, _)

\* analyzeFileAndImports(filePath, visited).  R is the global state, the
\* shared visited set and the paths walked so far.
analyzeFileAndImports(R, filePath) ==
  IF filePath \in R.visited THEN R
  ELSE LET R1 == [R EXCEPT !.visited = @ \cup {filePath}]
       IN  IF filePath \notin DOMAIN files
           THEN R1   \* Deno.readTextFileSync throws; caught, returns new Set()
           ELSE LET K  == CollectImports([g |-> R1.g, imports |-> <<>>],
                                         filePath, 1)
                    R2 == AnalyzeImported([R1 EXCEPT !.g = K.g], K.imports, 1)
                    r  == findBlockingFunctionsInTypescript(
                            R2.g, files[filePath].body)
                    G1 == [r.g EXCEPT
                             !.analyzedFiles =
                                MapSet(@, filePath, r.blockingFuncs),
                             !.blockingFunctions = @ \cup r.blockingFuncs]
                IN  [R2 EXCEPT !.g = propagateBlockingStatus(G1),
                               !.walks = Append(@, filePath)]

\* "Analyze all imported files first"
AnalyzeImported(R, imports, i) ==
  IF i > Len(imports) THEN R
  ELSE AnalyzeImported(
         IF imports[i].importPath \notin R.visited
         THEN analyzeFileAndImports(R, imports[i].importPath)
         ELSE R,
         imports, i + 1)

\* The rule's analyzeFile() for the linted file context.filename:
\* blockingFunctions.clear(); analyzeDenoSyncCalls(filename);
\* propagateBlockingStatus()
LintFile(filename) ==
  /\ runs < MaxRuns
  /\ LET R == analyzeFileAndImports(
                [g |-> [state EXCEPT !.blockingFunctions = {}],
                 visited |-> {}, walks |-> <<>>], filename)
     IN  /\ state' = propagateBlockingStatus(R.g)
         /\ passes' = Propagation(R.g, <<>>).passes
         /\ walks' = R.walks
  /\ runs' = runs + 1
  /\ lastRoot' = filename
  /\ UNCHANGED <<marking, reports, files, remote, overflow, tasks, visitedSet>>

\* The programs: f in A.ts, g and h in B.ts; each module may import the
\* other, bare or with one named binding.
InitGlobal ==
  /\ \E calls \in SeqsUpTo(PlainCalls, MaxLintNodes) :
       /\ Grouped(calls)
       /\ \E imps \in [Modules -> UNION {ImportLists(m) : m \in Modules}] :
            /\ \A m \in Modules : imps[m] \in ImportLists(m)
            /\ Len(calls) + NumBindings(imps[A]) + NumBindings(imps[B])
                 <= MaxLintNodes
            /\ files = Program(HomeOf, calls, imps)
  /\ remote = EmptyMap
  /\ state = EmptyGlobalState
  /\ runs = 0
  /\ lastRoot = Nowhere
  /\ walks = <<>>
  /\ overflow = FALSE
  /\ tasks = <<>>
  /\ visitedSet = {}
  /\ reports = <<>>
  /\ passes = <<>>
  /\ marking = <<>>

NextGlobal ==
  \/ \E filename \in Modules : LintFile(filename)

SpecGlobal == InitGlobal /\ [][NextGlobal]_vars

----------------------------------------------------------------------------
(* Synchronous analysis when some files cannot be read                     *)
(*                                                                         *)
(* analyzeFile of src/unnamed/part_001 reads with Deno.readTextFileSync    *)
(* and recurses into relative imports exactly as analyzeFileSync does.     *)

Restrict(fn, S) == [x \in S |-> fn[x]]

\* f in A.ts, g in B.ts, h in C.ts; the root A.ts can be read, B.ts and C.ts
\* may be missing
InitFaulty ==
  /\ \E calls \in SeqsUpTo(OwnedCalls, MaxFaultyNodes) :
       /\ Grouped(calls)
       /\ \E imps \in [AsyncModules ->
                        UNION {AsyncImportLists(m) : m \in AsyncModules}] :
            /\ \A m \in AsyncModules : imps[m] \in AsyncImportLists(m)
            /\ \E missing \in SUBSET (AsyncModules \ AsyncRoots) :
                 files = Restrict(Program(HomeOfAsync, calls, imps),
                                  AsyncModules \ missing)
  /\ remote = EmptyMap
  /\ state = EmptyState
  /\ runs = 0
  /\ lastRoot = Nowhere
  /\ walks = <<>>
  /\ overflow = FALSE
  /\ tasks = <<>>
  /\ visitedSet = {}
  /\ reports = <<>>
  /\ passes = <<>>
  /\ marking = <<>>

NextFaulty ==
  \/ \E root \in AsyncModules : AnalyzeFileSync(root)

SpecFaulty == InitFaulty /\ [][NextFaulty]_vars

----------------------------------------------------------------------------
(* The lint plugin (src/plugin.ts)                                         *)
(*                                                                         *)
(* The plugin keeps one globalState for the process.  Linting a file runs  *)
(* the Program handler (analyzeTypeScriptFile on the file name) and then   *)
(* the CallExpression handler on every call expression of the linted text, *)
(* in traversal order.  functionCalls keeps the callees of a caller in     *)
(* insertion order because isBlockingFunction iterates over them.          *)

\* const globalState = { ... }
EmptyPluginState ==
  [blockingFunctions |-> {},
   importMap         |-> EmptyMap,
   analyzedFiles     |-> EmptyMap,
   functionCalls     |-> <<>>]

\* normalizeImportPath of plugin.ts: ".ts" is appended only when the
\* resolved path has no extension
normalizeImportPathPlugin(importSpecifier, currentFile) ==
  IF importSpecifier.scheme # "."
  THEN importSpecifier
  ELSE Path(importSpecifier.stem,
            IF importSpecifier.ext # "" THEN importSpecifier.ext ELSE ".ts")

Contains(seq, x) == \E i \in DOMAIN seq : seq[i] = x

\* visit(node) inside analyzeTypeScriptFile
visitPlugin(W, node) ==
  CASE node.op = "enter" ->
         [W EXCEPT !.currentFunction = node.name,
                   !.g.functionCalls =
                      IF node.name \in Callers(@) THEN @
                      ELSE Append(@, [caller |-> node.name, callees |-> <<>>])]
    [] node.op = "exit" ->
         [W EXCEPT !.currentFunction = Undefined]
    [] node.op = "sync" ->
         IF W.currentFunction = Undefined THEN W
         ELSE [W EXCEPT !.blockingFuncs = @ \cup {W.currentFunction},
                        !.g.blockingFunctions = @ \cup {W.currentFunction}]
    [] node.op = "call" ->
         IF W.currentFunction = Undefined THEN W
         ELSE [W EXCEPT !.g.functionCalls =
                 [i \in DOMAIN @ |->
                    IF @[i].caller = W.currentFunction
                       /\ ~Contains(@[i].callees, node.name)
                    THEN [@[i] EXCEPT !.callees = Append(@, node.name)]
                    ELSE @[i]]]
    [] OTHER -> W

RECURSIVE VisitFromPlugin(_, _, _)
VisitFromPlugin(W, body, i) ==
  IF i > Len(body) THEN W
  ELSE VisitFromPlugin(visitPlugin(W, body[i]), body, i + 1)

\* Deno.readTextFileSync(filePath) succeeds
Readable(filePath) ==
  filePath \in DOMAIN files /\ files[filePath].readable

RECURSIVE analyzeTypeScriptFile(_, _)
RECURSIVE PluginImports(_, _, _)
RECURSIVE PluginBindings(_, _, _, _)

\* analyzeTypeScriptFile(filePath, visited).  R is the global state, the
\* shared visited set and the paths walked so far.
analyzeTypeScriptFile(R, filePath) ==
  IF filePath \in R.visited THEN R
  ELSE LET R1 == [R EXCEPT !.visited = @ \cup {filePath}]
       IN  IF ~Readable(filePath)
           THEN R1   \* caught: console.error, return new Set()
           ELSE LET R2 == PluginImports(R1, filePath, 1)
                    W  == VisitFromPlugin(
                            [g |-> R2.g, blockingFuncs |-> {},
                             currentFunction |-> Undefined],
                            files[filePath].body, 1)
                IN  [R2 EXCEPT
                       !.g = [W.g EXCEPT !.analyzedFiles =
                                MapSet(@, filePath, W.blockingFuncs)],
                       !.walks = Append(@, filePath)]

\* "Analyze imports first": sourceFile.forEachChild over import declarations
PluginImports(R, filePath, i) ==
  IF i > Len(files[filePath].imports) THEN R
  ELSE LET node == files[filePath].imports[i]
       IN  IF node.source.scheme = "."
           THEN PluginImports(
                  PluginBindings(R, node.bindings,
                                 normalizeImportPathPlugin(node.source, filePath),
                                 1),
                  filePath, i + 1)
           ELSE PluginImports(R, filePath, i + 1)

\* namedBindings.forEachChild: importMap.set, then the import is analyzed
\* unless visited
PluginBindings(R, bindings, importPath, i) ==
  IF i > Len(bindings) THEN R
  ELSE LET R1 == [R EXCEPT !.g.importMap =
                    MapSet(@, bindings[i].local,
                           [source |-> importPath,
                            name |-> bindings[i].imported])]
       IN  PluginBindings(
             IF importPath \notin R1.visited
             THEN analyzeTypeScriptFile(R1, importPath)
             ELSE R1,
             bindings, importPath, i + 1)

RECURSIVE isBlockingFunctionPlugin(_, _)
RECURSIVE BlockingCallee(_, _, _, _)

\* isBlockingFunction(name, visited) of the rule.  Q is the global state,
\* the shared visited set and the returned value.
isBlockingFunctionPlugin(Q, name) ==
  IF name \in Q.visited THEN [Q EXCEPT !.result = FALSE]
  ELSE LET Q1 == [Q EXCEPT !.visited = @ \cup {name}]
           G  == Q1.g
           entries == SelectSeq(G.functionCalls, LAMBDA e : e.caller = name)
       IN  IF name \in G.blockingFunctions
           THEN [Q1 EXCEPT !.result = TRUE]
           ELSE IF /\ name \in DOMAIN G.importMap
                   /\ G.importMap[name].source \in DOMAIN G.analyzedFiles
                   /\ G.importMap[name].name
                        \in G.analyzedFiles[G.importMap[name].source]
           THEN [Q1 EXCEPT !.g.blockingFunctions = @ \cup {name},
                           !.result = TRUE]
           ELSE IF entries # <<>>
           THEN BlockingCallee(Q1, name, entries[1].callees, 1)
           ELSE [Q1 EXCEPT !.result = FALSE]

\* for (const callee of calls)
BlockingCallee(Q, name, calls, i) ==
  IF i > Len(calls) THEN [Q EXCEPT !.result = FALSE]
  ELSE IF calls[i] \in Q.visited
       THEN BlockingCallee(Q, name, calls, i + 1)
       ELSE LET r == isBlockingFunctionPlugin(Q, calls[i])
            IN  IF r.result
                THEN [r EXCEPT !.g.blockingFunctions = @ \cup {name}]
                ELSE BlockingCallee(r, name, calls, i + 1)

\* a call isBlockingFunction(name) with the default visited = new Set()
QueryPlugin(G, name) ==
  isBlockingFunctionPlugin([g |-> G, visited |-> {}, result |-> FALSE], name)

\* the nearest FunctionDeclaration ancestor of node j of the body
RECURSIVE Enclosing(_, _, _, _)
Enclosing(body, j, i, stack) ==
  IF i >= j
  THEN IF stack = <<>> THEN Undefined ELSE stack[Len(stack)]
  ELSE Enclosing(body, j, i + 1,
         CASE body[i].op = "enter" -> Append(stack, body[i].name)
           [] body[i].op = "exit"  -> SubSeq(stack, 1, Len(stack) - 1)
           [] OTHER -> stack)

EnclosingDeclaration(body, j) == Enclosing(body, j, 1, <<>>)

\* every enclosing declaration taken for async
IsAsync_always(filename, funcName) == TRUE

\* parent.async
IsAsync(filename, funcName) == funcName \in files[filename].asyncFns

Report(funcName, j) == [funcName |-> funcName, node |-> j]

\* the "CallExpression" handler on node j of the linted text.  L is the
\* global state and the reports made so far.
CallExpression(L, filename, j) ==
  LET node     == files[filename].body[j]
      funcName == EnclosingDeclaration(files[filename].body, j)
  IN  IF funcName = Undefined \/ ~IsAsync(filename, funcName) THEN L
      ELSE LET q == QueryPlugin(L.g, funcName)
           IN  IF ~q.result THEN [L EXCEPT !.g = q.g]
               ELSE IF node.op = "sync"
                       \/ (node.op = "call"
                           /\ node.name \in q.g.blockingFunctions)
               THEN [g |-> q.g,
                     reports |-> Append(L.reports, Report(funcName, j))]
               ELSE [L EXCEPT !.g = q.g]

RECURSIVE Traverse(_, _, _)
Traverse(L, filename, j) ==
  IF j > Len(files[filename].body) THEN L
  ELSE Traverse(
         IF files[filename].body[j].op \in {"sync", "call", "member"}
         THEN CallExpression(L, filename, j)
         ELSE L,
         filename, j + 1)

\* one file linted by a fresh rule instance (create): Program(), then the
\* call expressions; the result is the global state, the reports and the
\* paths walked
LintWith(G, filename) ==
  LET R == analyzeTypeScriptFile([g |-> G, visited |-> {}, walks |-> <<>>],
                                 filename)
      L == Traverse([g |-> R.g, reports |-> <<>>], filename, 1)
  IN  [g |-> L.g, reports |-> L.reports, walks |-> R.walks]

LintFilePlugin(filename) ==
  /\ runs < MaxRuns
  /\ LET r == LintWith(state, filename)
     IN  /\ state' = r.g
         /\ reports' = r.reports
         /\ walks' = r.walks
  /\ runs' = runs + 1
  /\ lastRoot' = filename
  /\ UNCHANGED <<marking, passes, files, remote, overflow, tasks, visitedSet>>

\* The programs: f in A.ts, g and h in B.ts, any of them async; each module
\* may import the other, bare or with one named binding; the process either
\* has read permission or not.
InitPlugin ==
  /\ \E calls \in SeqsUpTo(PlainCalls, MaxPluginNodes) :
       /\ Grouped(calls)
       /\ \E imps \in [Modules -> UNION {ImportLists(m) : m \in Modules}] :
            /\ \A m \in Modules : imps[m] \in ImportLists(m)
            /\ Len(calls) + NumBindings(imps[A]) + NumBindings(imps[B])
                 <= MaxPluginNodes
            /\ \E asyncFns \in SUBSET Names, readable \in BOOLEAN :
                 files = [m \in Modules |->
                            [imports  |-> imps[m],
                             body     |-> BodyFrom(HomeOf, calls, m, 1),
                             asyncFns |-> {n \in asyncFns : HomeOf[n] = m},
                             readable |-> readable]]
  /\ remote = EmptyMap
  /\ state = EmptyPluginState
  /\ runs = 0
  /\ lastRoot = Nowhere
  /\ walks = <<>>
  /\ overflow = FALSE
  /\ tasks = <<>>
  /\ visitedSet = {}
  /\ reports = <<>>
  /\ passes = <<>>
  /\ marking = <<>>

NextPlugin ==
  \/ \E filename \in Modules : LintFilePlugin(filename)

SpecPlugin == InitPlugin /\ [][NextPlugin]_vars

----------------------------------------------------------------------------
(* analyzeSourceFile on files with nested declarations and top-level calls *)
(* (src/unnamed/part_000)                                                   *)

\* the nodes of such a file: the function declarations f and g, the
\* variable h initialised with an arrow function, Deno.*Sync calls and
\* bare-identifier calls
WalkNodes ==
  {Ev("enter", "f"), Ev("enter", "g"), Ev("exit", Undefined),
   Ev("var", "h"), Ev("endvar", Undefined), Ev("sync", Undefined)}
  \cup {Ev("call", n) : n \in Names}

\* the function-like declarations that enclose node j, outermost first
RECURSIVE ScopesFrom(_, _, _, _)
ScopesFrom(body, j, i, stack) ==
  IF i >= j THEN stack
  ELSE ScopesFrom(body, j, i + 1,
         CASE body[i].op \in {"enter", "var"} -> Append(stack, body[i])
           [] body[i].op \in {"exit", "endvar"} ->
                SubSeq(stack, 1, Len(stack) - 1)
           [] OTHER -> stack)

Scopes(body, j) == ScopesFrom(body, j, 1, <<>>)

\* every closing node closes the declaration of its kind that is open
WellNested(body) ==
  /\ \A j \in DOMAIN body :
       /\ body[j].op = "exit" =>
            /\ Scopes(body, j) # <<>>
            /\ Scopes(body, j)[Len(Scopes(body, j))].op = "enter"
       /\ body[j].op = "endvar" =>
            /\ Scopes(body, j) # <<>>
            /\ Scopes(body, j)[Len(Scopes(body, j))].op = "var"
  /\ Scopes(body, Len(body) + 1) = <<>>

\* the walker of analyzeSourceFile when it arrives at node j of the file,
\* on a new analyzer
WalkerAt(body, filePath, j) ==
  VisitFrom([s |-> EmptyState, blockingFuncs |-> {},
             currentFunction |-> Undefined],
            SubSeq(body, 1, j - 1), filePath, 1)

InitWalk ==
  /\ \E body \in SeqsUpTo(WalkNodes, MaxBodyLen) :
       /\ WellNested(body)
       /\ files = [m \in {A} |-> [imports |-> <<>>, body |-> body]]
  /\ remote = EmptyMap
  /\ state = EmptyState
  /\ runs = 0
  /\ lastRoot = Nowhere
  /\ walks = <<>>
  /\ overflow = FALSE
  /\ tasks = <<>>
  /\ visitedSet = {}
  /\ reports = <<>>
  /\ passes = <<>>
  /\ marking = <<>>

NextWalk ==
  \/ \E root \in {A} : AnalyzeFileSync(root)

SpecWalk == InitWalk /\ [][NextWalk]_vars

----------------------------------------------------------------------------
(* Synchronous analysis of a file with jsr: and npm: imports               *)
(* (src/unnamed/part_000)                                                   *)

\* the import declarations of A.ts: the package jsr:R or npm:N without
\* bindings or importing its g under the local name g or h, or the local
\* module B.ts
RemoteImports ==
  {Import(src, b) :
     src \in {JsrR, NpmN},
     b \in {<<>>} \cup {<<Binding(l, "g")>> : l \in {"g", "h"}}}
  \cup {BareImport(B)}

\* A.ts declares f, B.ts declares h with a Deno.*Sync call; both packages
\* can be fetched and export a g that is blocking or not
InitRemote ==
  /\ \E imports \in SeqsUpTo(RemoteImports, MaxImports),
        calls \in SeqsUpTo(CallNodes, MaxRemoteNodes),
        gcalls \in SeqsUpTo({Ev("sync", Undefined)}, 1) :
       /\ files = [m \in Modules |->
                     IF m = A
                     THEN [imports |-> imports,
                           body |-> FunctionDeclaration("f", calls)]
                     ELSE [imports |-> <<>>,
                           body |-> FunctionDeclaration(
                                      "h", <<Ev("sync", Undefined)>>)]]
       /\ remote = [u \in {JsrR, NpmN} |-> FunctionDeclaration("g", gcalls)]
  /\ state = EmptyState
  /\ runs = 0
  /\ lastRoot = Nowhere
  /\ walks = <<>>
  /\ overflow = FALSE
  /\ tasks = <<>>
  /\ visitedSet = {}
  /\ reports = <<>>
  /\ passes = <<>>
  /\ marking = <<>>

NextRemote ==
  \/ \E root \in {A} : AnalyzeFileSync(root)

SpecRemote == InitRemote /\ [][NextRemote]_vars

----------------------------------------------------------------------------
(* Synchronous analysis when a jsr: specifier cannot be resolved or fetched *)
(* (src/unnamed/part_000)                                                   *)

\* the import declarations of A.ts: the package jsr:R or jsr:Q without
\* bindings or importing its g under the local name g or h, or the local
\* module B.ts
JsrImports ==
  {Import(src, b) :
     src \in {JsrR, JsrQ},
     b \in {<<>>} \cup {<<Binding(l, "g")>> : l \in {"g", "h"}}}
  \cup {BareImport(B)}

\* A.ts declares f, B.ts declares h with a Deno.*Sync call; each package
\* either resolves and is fetched, exporting a g that is blocking or not, or
\* resolveJsrUrlSync / fetchSync throws for it
InitUnresolved ==
  /\ \E imports \in SeqsUpTo(JsrImports, MaxImports),
        calls \in SeqsUpTo(CallNodes, MaxRemoteNodes),
        gcalls \in SeqsUpTo({Ev("sync", Undefined)}, 1),
        resolvable \in SUBSET {JsrR, JsrQ} :
       /\ files = [m \in Modules |->
                     IF m = A
                     THEN [imports |-> imports,
                           body |-> FunctionDeclaration("f", calls)]
                     ELSE [imports |-> <<>>,
                           body |-> FunctionDeclaration(
                                      "h", <<Ev("sync", Undefined)>>)]]
       /\ remote = [u \in resolvable |-> FunctionDeclaration("g", gcalls)]
  /\ state = EmptyState
  /\ runs = 0
  /\ lastRoot = Nowhere
  /\ walks = <<>>
  /\ overflow = FALSE
  /\ tasks = <<>>
  /\ visitedSet = {}
  /\ reports = <<>>
  /\ passes = <<>>
  /\ marking = <<>>

NextUnresolved ==
  \/ \E root \in {A} : AnalyzeFileSync(root)

SpecUnresolved == InitUnresolved /\ [][NextUnresolved]_vars

----------------------------------------------------------------------------
(* The lint plugin on programs with renamed imports (src/plugin.ts)        *)

\* a local name that no module declares, used to rename an import
AliasName == "k"
LocalNames == Names \cup {AliasName}

\* Deno.*Sync calls and bare-identifier calls of another declared function
\* or of the alias
AliasCalls ==
  {oc \in {OwnedCall(n, c) :
             n \in Names,
             c \in {Ev("sync", Undefined)} \cup {Ev("call", x) : x \in LocalNames}} :
     oc.node.name # oc.owner}

\* import { x } or import { x as k } of a function x of the other module;
\* A.ts may also import two functions of B.ts under the same local name k
AliasImportLists(m) ==
  {<<>>} \cup
  UNION {{<<Import(Specifier(".", HomeOf[x].stem, ""), <<Binding(l, x)>>)>> :
            l \in {x, AliasName}} :
           x \in {n \in Names : HomeOf[n] # m}}
  \cup (IF m = A
        THEN {<<Import(Specifier(".", "B", ""), <<Binding(AliasName, x1)>>),
                Import(Specifier(".", "B", ""), <<Binding(AliasName, x2)>>)>> :
                x1 \in {"g", "h"}, x2 \in {"g", "h"}}
        ELSE {})

\* The programs: f in A.ts, g and h in B.ts, all of them async or none;
\* every file can be read.
InitAlias ==
  /\ \E calls \in SeqsUpTo(AliasCalls, MaxAliasNodes) :
       /\ Grouped(calls)
       /\ \E imps \in [Modules -> UNION {AliasImportLists(m) : m \in Modules}] :
            /\ \A m \in Modules : imps[m] \in AliasImportLists(m)
            /\ \E asyncFns \in {{}, Names} :
                 files = [m \in Modules |->
                            [imports  |-> imps[m],
                             body     |-> BodyFrom(HomeOf, calls, m, 1),
                             asyncFns |-> {n \in asyncFns : HomeOf[n] = m},
                             readable |-> TRUE]]
  /\ remote = EmptyMap
  /\ state = EmptyPluginState
  /\ runs = 0
  /\ lastRoot = Nowhere
  /\ walks = <<>>
  /\ overflow = FALSE
  /\ tasks = <<>>
  /\ visitedSet = {}
  /\ reports = <<>>
  /\ passes = <<>>
  /\ marking = <<>>

NextAlias ==
  \/ \E filename \in Modules : LintFilePlugin(filename)

SpecAlias == InitAlias /\ [][NextAlias]_vars

----------------------------------------------------------------------------
(* The lint plugin on one file with several call sites (src/plugin.ts)     *)

\* every function is declared in the linted file
HomeInA == [n \in Names |-> A]

\* The programs: A.ts declares f, g and h in this order, any of them async,
\* with Deno.*Sync calls and bare-identifier calls in their bodies; there
\* are no imports and the file can be read.
InitSites ==
  /\ \E calls \in SeqsUpTo(PlainCalls, MaxSiteNodes) :
       /\ Grouped(calls)
       /\ \E asyncFns \in SUBSET Names :
            files = (A :> [imports  |-> <<>>,
                           body     |-> BodyFrom(HomeInA, calls, A, 1),
                           asyncFns |-> asyncFns,
                           readable |-> TRUE])
  /\ remote = EmptyMap
  /\ state = EmptyPluginState
  /\ runs = 0
  /\ lastRoot = Nowhere
  /\ walks = <<>>
  /\ overflow = FALSE
  /\ tasks = <<>>
  /\ visitedSet = {}
  /\ reports = <<>>
  /\ passes = <<>>
  /\ marking = <<>>

NextSites ==
  \/ \E filename \in {A} : LintFilePlugin(filename)

SpecSites == InitSites /\ [][NextSites]_vars

----------------------------------------------------------------------------
(* Synchronous analysis of one program written in two orders               *)
(* (src/unnamed/part_000)                                                   *)

\* A.ts declares f and g and imports B.ts (declaring h) and C.ts (declaring
\* k); the permuted copy of A.ts has the same declarations and the same
\* imports, written in another order.
Permuted == Path("A-permuted", ".ts")
OrderNames == {"f", "g", "h", "k"}
OrderIndex == [f |-> 1, g |-> 2, h |-> 3, k |-> 4]

OrderCalls ==
  {oc \in {OwnedCall(n, c) :
             n \in OrderNames,
             c \in {Ev("sync", Undefined)}
                     \cup {Ev("call", x) : x \in OrderNames}
                     \cup {Ev("member", x) : x \in OrderNames}} :
     oc.node.name # oc.owner}

GroupedIn(calls, index) ==
  /\ \A i \in 1..(Len(calls) - 1) :
       index[calls[i].owner] <= index[calls[i + 1].owner]
  /\ \A i, j \in DOMAIN calls : calls[i] = calls[j] => i = j

\* the function declarations named in order, one after the other
RECURSIVE Declarations(_, _, _)
Declarations(calls, order, i) ==
  IF i > Len(order) THEN <<>>
  ELSE FunctionDeclaration(order[i], CallsOf(calls, order[i]))
         \o Declarations(calls, order, i + 1)

Reverse(seq) == [i \in DOMAIN seq |-> seq[Len(seq) + 1 - i]]

InitOrder ==
  /\ \E calls \in SeqsUpTo(OrderCalls, MaxOrderNodes) :
       /\ GroupedIn(calls, OrderIndex)
       /\ \E imports \in SeqsUpTo({BareImport(B), BareImport(C)}, 2),
             swapDeclarations \in BOOLEAN, swapImports \in BOOLEAN :
            files =
              [m \in {A, Permuted, B, C} |->
                 CASE m = A ->
                        [imports |-> imports,
                         body |-> Declarations(calls, <<"f", "g">>, 1)]
                   [] m = Permuted ->
                        [imports |-> IF swapImports THEN Reverse(imports)
                                     ELSE imports,
                         body |-> Declarations(
                                    calls,
                                    IF swapDeclarations THEN <<"g", "f">>
                                    ELSE <<"f", "g">>, 1)]
                   [] m = B ->
                        [imports |-> <<>>,
                         body |-> Declarations(calls, <<"h">>, 1)]
                   [] m = C ->
                        [imports |-> <<>>,
                         body |-> Declarations(calls, <<"k">>, 1)]]
  /\ remote = EmptyMap
  /\ state = EmptyState
  /\ runs = 0
  /\ lastRoot = Nowhere
  /\ walks = <<>>
  /\ overflow = FALSE
  /\ tasks = <<>>
  /\ visitedSet = {}
  /\ reports = <<>>
  /\ passes = <<>>
  /\ marking = <<>>

NextOrder ==
  \/ \E root \in {A, Permuted} : AnalyzeFileSync(root)

SpecOrder == InitOrder /\ [][NextOrder]_vars

----------------------------------------------------------------------------
(* propagateBlockingStatus on its own (src/eslint.config.ts)               *)

\* an entry of functionCalls: a caller with no callee or one, a declared
\* function or the alias
CallEntries ==
  UNION {{[caller |-> n, callees |-> cs] :
            cs \in {{}} \cup {{c} : c \in LocalNames \ {n}}} :
           n \in Names}

\* Map keys are distinct
DistinctCallers(functionCalls) ==
  \A i, j \in DOMAIN functionCalls :
    functionCalls[i].caller = functionCalls[j].caller => i = j

\* The global state when propagateBlockingStatus is called: any call graph,
\* the alias k or the plain name g imported from B.ts or no import, any set
\* of directly blocking functions recorded for B.ts, any blocking set.
InitPropagate ==
  /\ \E functionCalls \in SeqsUpTo(CallEntries, MaxEntries),
        seeds \in SUBSET Names,
        exported \in SUBSET {"g", "h"},
        importMap \in {EmptyMap}
                        \cup {[l \in {local} |-> [source |-> B, name |-> "g"]] :
                                local \in {AliasName, "g"}} :
       /\ DistinctCallers(functionCalls)
       /\ state = [EmptyGlobalState EXCEPT
                     !.functionCalls = functionCalls,
                     !.blockingFunctions = seeds,
                     !.importMap = importMap,
                     !.analyzedFiles = [p \in {B} |-> exported]]
  /\ files = EmptyMap
  /\ remote = EmptyMap
  /\ runs = 0
  /\ lastRoot = Nowhere
  /\ walks = <<>>
  /\ overflow = FALSE
  /\ tasks = <<>>
  /\ visitedSet = {}
  /\ reports = <<>>
  /\ passes = <<>>
  /\ marking = <<>>

\* a call propagateBlockingStatus()
Propagate ==
  /\ runs < MaxRuns
  /\ LET r == Propagation(state, <<>>)
     IN  /\ state' = r.g
         /\ passes' = r.passes
  /\ runs' = runs + 1
  /\ UNCHANGED <<marking, reports, files, remote, lastRoot, walks, overflow, tasks,
                 visitedSet>>

NextPropagate ==
  \/ Propagate

SpecPropagate == InitPropagate /\ [][NextPropagate]_vars

----------------------------------------------------------------------------
(* markAsBlocking on its own (src/unnamed/part_001, as in part_000)        *)

\* the guard left out
Seen_never(funcName, visited) == FALSE

\* if (visited.has(funcName)) return
Seen(funcName, visited) == funcName \in visited

RECURSIVE markAsBlockingTraced(_, _, _)
RECURSIVE MarkCallersTraced(_, _, _, _)

\* markAsBlocking(funcName, visited), entered as frame number depth.  M is
\* the analyzer state, the shared visited set, the names whose body has run
\* so far and the flag that the call stack is exhausted.
markAsBlockingTraced(M, funcName, depth) ==
  IF depth > MaxMarkFrames THEN [M EXCEPT !.overflow = TRUE]
  ELSE IF Seen(funcName, M.visited) THEN M
  ELSE MarkCallersTraced(
         [M EXCEPT !.visited = @ \cup {funcName},
                   !.log = Append(@, funcName),
                   !.s.blockingFunctions = @ \cup {funcName}],
         funcName, depth, 1)

\* for (const [caller, callees] of this.state.functionCalls.entries())
MarkCallersTraced(M, funcName, depth, i) ==
  IF M.overflow \/ i > Len(M.s.functionCalls) THEN M
  ELSE IF funcName \in M.s.functionCalls[i].callees
       THEN LET caller == M.s.functionCalls[i].caller
                r == markAsBlockingTraced(M, caller, depth + 1)
            IN  MarkCallersTraced(
                  [r EXCEPT !.s = InheritLocation(@, caller, funcName)],
                  funcName, depth, i + 1)
       ELSE MarkCallersTraced(M, funcName, depth, i + 1)

\* an entry of functionCalls with any set of callees, the caller included
AnyCallEntries ==
  {[caller |-> n, callees |-> cs] : n \in Names, cs \in SUBSET Names}

\* The analyzer state when markAsBlocking is called: any call graph
InitMark ==
  /\ \E functionCalls \in SeqsUpTo(AnyCallEntries, MaxCallers) :
       /\ DistinctCallers(functionCalls)
       /\ state = [EmptyState EXCEPT !.functionCalls = functionCalls]
  /\ files = EmptyMap
  /\ remote = EmptyMap
  /\ runs = 0
  /\ lastRoot = Nowhere
  /\ walks = <<>>
  /\ overflow = FALSE
  /\ tasks = <<>>
  /\ visitedSet = {}
  /\ reports = <<>>
  /\ passes = <<>>
  /\ marking = <<>>

\* a top-level call this.markAsBlocking(funcName)
MarkAsBlocking(funcName) ==
  /\ runs < MaxRuns
  /\ LET M == markAsBlockingTraced(
                [s |-> state, visited |-> {}, log |-> <<>>, overflow |-> FALSE],
                funcName, 1)
     IN  /\ state' = M.s
         /\ marking' = M.log
         /\ overflow' = M.overflow
  /\ runs' = runs + 1
  /\ UNCHANGED <<passes, reports, files, remote, lastRoot, walks, tasks,
                 visitedSet>>

NextMark ==
  \/ \E funcName \in Names : MarkAsBlocking(funcName)

SpecMark == InitMark /\ [][NextMark]_vars

----------------------------------------------------------------------------
(* The asynchronous traversal with jsr: imports (src/unnamed/part_000)     *)

\* the response of task t arrives: remoteModules.set, analyzeSourceFile on
\* the fetched text, and the .then callback binds the imported names; when
\* resolving or fetching throws, the call returns new Set()
FetchCompletes(t) ==
  /\ tasks[t].pc = "fetching"
  /\ ~MicrotasksPending
  /\ LET url == tasks[t].path
         S1  == [state EXCEPT !.remoteModules =
                   MapSet(@, url, [url |-> url, blockingFunctions |-> {}])]
         r   == analyzeSourceFile(S1, remote[url], url)
         S2  == [r.s EXCEPT !.remoteModules[url].blockingFunctions =
                              r.blockingFuncs]
     IN  IF url \in DOMAIN remote
         THEN /\ state' = BindRemote(S2, tasks[t].bindings, url,
                                     r.blockingFuncs, 1)
              /\ walks' = Append(walks, url)
         ELSE /\ state' = BindRemote(state, tasks[t].bindings, url, {}, 1)
              /\ walks' = walks
  /\ tasks' = [tasks EXCEPT ![t].pc = "done"]
  /\ UNCHANGED <<marking, passes, reports, files, remote, runs, lastRoot,
                 overflow, visitedSet>>

\* the .then callback of a call that returned the stored set
BindCached(t) ==
  /\ tasks[t].pc = "cached"
  /\ state' = BindRemote(state, tasks[t].bindings, tasks[t].path,
                         state.remoteModules[tasks[t].path].blockingFunctions,
                         1)
  /\ tasks' = [tasks EXCEPT ![t].pc = "done"]
  /\ UNCHANGED <<marking, passes, reports, files, remote, runs, lastRoot,
                 walks, overflow, visitedSet>>

\* the import declarations of A.ts: the package jsr:R, without bindings or
\* importing its g, or the local module B.ts
AsyncRemoteImports ==
  {Import(JsrR, <<>>), Import(JsrR, <<Binding("g", "g")>>), BareImport(B)}

\* A.ts declares f and has up to MaxImports imports; B.ts declares h and may
\* import jsr:R as well; the package can be fetched and exports a g that is
\* blocking or not
InitAsyncRemote ==
  /\ \E imports \in SeqsUpTo(AsyncRemoteImports, MaxImports),
        importsB \in SeqsUpTo({Import(JsrR, <<>>)}, 1),
        calls \in SeqsUpTo(CallNodes, MaxRemoteNodes),
        gcalls \in SeqsUpTo({Ev("sync", Undefined)}, 1) :
       /\ files = [m \in Modules |->
                     IF m = A
                     THEN [imports |-> imports,
                           body |-> FunctionDeclaration("f", calls)]
                     ELSE [imports |-> importsB,
                           body |-> FunctionDeclaration("h", <<>>)]]
       /\ remote = [u \in {JsrR} |-> FunctionDeclaration("g", gcalls)]
  /\ state = EmptyState
  /\ runs = 0
  /\ lastRoot = Nowhere
  /\ walks = <<>>
  /\ overflow = FALSE
  /\ tasks = <<>>
  /\ visitedSet = {}
  /\ reports = <<>>
  /\ passes = <<>>
  /\ marking = <<>>

NextAsyncRemote ==
  \/ \E root \in {A} : AnalyzeFile(root)
  \/ \E t \in DOMAIN tasks : ReadCompletes(t)
  \/ \E t \in DOMAIN tasks : FetchCompletes(t)
  \/ \E t \in DOMAIN tasks : BindCached(t)
  \/ \E t \in DOMAIN tasks : WalkBody(t)

SpecAsyncRemote == InitAsyncRemote /\ [][NextAsyncRemote]_vars

----------------------------------------------------------------------------
(* The single-pass rule "no-blocking" (src/index.js)                       *)
(*                                                                         *)
(* create(context) makes a new blockingFunctions set; the host then walks  *)
(* the linted text once and calls the handler of every selector a node     *)
(* matches when it enters the node.                                        *)

\* the nodes of a linted file: the function declarations f and g, which
\* may be nested and declared more than once, Deno.*Sync calls and
\* bare-identifier calls
RuleNodes ==
  {Ev("enter", "f"), Ev("enter", "g"), Ev("exit", Undefined),
   Ev("sync", Undefined), Ev("call", "f"), Ev("call", "g")}

\* let current = node.parent; while (current && current.type !==
\* "FunctionDeclaration") current = current.parent; current?.id?.name
AddEnclosing(L, body, j) ==
  IF EnclosingDeclaration(body, j) = Undefined THEN L
  ELSE [L EXCEPT !.blockingFunctions = @ \cup {EnclosingDeclaration(body, j)}]

\* 'CallExpression[callee.object.name="Deno"][callee.property.name=/Sync$/]'
DenoSyncCall(L, body, j) == AddEnclosing(L, body, j)

\* 'CallExpression[callee.type="Identifier"]'
IdentifierCall(L, body, j) ==
  IF body[j].name \in L.blockingFunctions THEN AddEnclosing(L, body, j) ELSE L

\* "FunctionDeclaration[async=true]"
AsyncFunctionDeclaration(L, filename, j) ==
  LET node == files[filename].body[j]
  IN  IF IsAsync(filename, node.name) /\ node.name \in L.blockingFunctions
      THEN [L EXCEPT !.reports = Append(@, Report(node.name, j))]
      ELSE L

\* the walk of the host over the nodes of the linted text
RECURSIVE TraverseNoBlocking(_, _, _)
TraverseNoBlocking(L, filename, j) ==
  LET body == files[filename].body
  IN  IF j > Len(body) THEN L
      ELSE TraverseNoBlocking(
             CASE body[j].op = "enter" -> AsyncFunctionDeclaration(L, filename, j)
               [] body[j].op = "sync"  -> DenoSyncCall(L, body, j)
               [] body[j].op = "call"  -> IdentifierCall(L, body, j)
               [] OTHER -> L,
             filename, j + 1)

\* one file linted by a new rule instance
LintNoBlocking(filename) ==
  /\ runs < MaxRuns
  /\ LET L == TraverseNoBlocking([blockingFunctions |-> {}, reports |-> <<>>],
                                 filename, 1)
     IN  /\ state' = [blockingFunctions |-> L.blockingFunctions]
         /\ reports' = L.reports
  /\ runs' = runs + 1
  /\ lastRoot' = filename
  /\ UNCHANGED <<marking, passes, files, remote, walks, overflow, tasks,
                 visitedSet>>

\* The programs: A.ts and B.ts hold well-nested declarations of f and g,
\* each name async or not in all its declarations.
InitNoBlocking ==
  /\ \E bodyA \in SeqsUpTo(RuleNodes, MaxRuleLen),
        bodyB \in {<<>>, FunctionDeclaration("f", <<Ev("sync", Undefined)>>)},
        asyncFns \in SUBSET {"f", "g"} :
       /\ WellNested(bodyA)
       /\ files = (A :> [body |-> bodyA, asyncFns |-> asyncFns]
                   @@ B :> [body |-> bodyB, asyncFns |-> asyncFns])
  /\ remote = EmptyMap
  /\ state = [blockingFunctions |-> {}]
  /\ runs = 0
  /\ lastRoot = Nowhere
  /\ walks = <<>>
  /\ overflow = FALSE
  /\ tasks = <<>>
  /\ visitedSet = {}
  /\ reports = <<>>
  /\ passes = <<>>
  /\ marking = <<>>

NextNoBlocking ==
  \/ \E filename \in Modules : LintNoBlocking(filename)

SpecNoBlocking == InitNoBlocking /\ [][NextNoBlocking]_vars

----------------------------------------------------------------------------
(* analyzeSourceFile on calls with a member-access callee                  *)
(* (src/unnamed/part_000)                                                   *)

\* the objects and the member names of the callees: the platform namespace
\* Deno and one other object; a member with and one without the suffix
Objects == {"Deno", "x"}
MemberNames == {"readFile", "readFileSync"}

\* expr.name.text.endsWith("Sync")
EndsWithSync(name) == name \in {"readFileSync"}

\* the CallExpression <object>.<member>(...) as the walker takes it: the
\* first test of the chain makes it a Deno.*Sync call, the third one a call
\* with callee <obj>.<name>
PropertyAccessCall(object, member) ==
  [op     |-> IF object = "Deno" /\ EndsWithSync(member) THEN "sync" ELSE "member",
   name   |-> IF object = "Deno" /\ EndsWithSync(member) THEN Undefined ELSE member,
   object |-> object,
   member |-> member]

\* the CallExpression <name>(...)
IdentifierCallNode(name) ==
  [op |-> "call", name |-> name, object |-> Undefined, member |-> Undefined]

NamespaceCalls ==
  {PropertyAccessCall(o, m) : o \in Objects, m \in MemberNames}
    \cup {IdentifierCallNode("readFile")}

\* The programs: A.ts declares f and readFile, in either order, with member
\* calls and calls of readFile in their bodies.
InitNamespace ==
  /\ \E callsF \in SeqsUpTo(NamespaceCalls, MaxNamespaceNodes),
        callsR \in SeqsUpTo(NamespaceCalls, MaxNamespaceNodes),
        swap \in BOOLEAN :
       files = (A :> [imports |-> <<>>,
                      body |-> IF swap
                               THEN FunctionDeclaration("readFile", callsR)
                                      \o FunctionDeclaration("f", callsF)
                               ELSE FunctionDeclaration("f", callsF)
                                      \o FunctionDeclaration("readFile", callsR)])
  /\ remote = EmptyMap
  /\ state = EmptyState
  /\ runs = 0
  /\ lastRoot = Nowhere
  /\ walks = <<>>
  /\ overflow = FALSE
  /\ tasks = <<>>
  /\ visitedSet = {}
  /\ reports = <<>>
  /\ passes = <<>>
  /\ marking = <<>>

NextNamespace ==
  \/ \E root \in {A} : AnalyzeFileSync(root)

SpecNamespace == InitNamespace /\ [][NextNamespace]_vars

----------------------------------------------------------------------------
(* Synchronous analysis of a file with two functions and a jsr: import     *)
(* (src/unnamed/part_000)                                                   *)

\* Deno.*Sync calls and bare-identifier calls of the imported g and of h
LocationCalls == {Ev("sync", Undefined), Ev("call", "g"), Ev("call", "h")}

\* no import, or import { g } or import { g as k } from the package
LocationImports ==
  {<<>>} \cup {<<Import(JsrR, <<Binding(l, "g")>>)>> : l \in {"g", AliasName}}

\* A.ts declares f and then h; the package can be fetched and exports a g
\* that is blocking or not
InitLocations ==
  /\ \E callsF \in SeqsUpTo(LocationCalls, MaxLocationNodes),
        callsH \in SeqsUpTo(LocationCalls, MaxLocationNodes),
        imports \in LocationImports,
        gcalls \in SeqsUpTo({Ev("sync", Undefined)}, 1) :
       /\ files = (A :> [imports |-> imports,
                         body |-> FunctionDeclaration("f", callsF)
                                    \o FunctionDeclaration("h", callsH)])
       /\ remote = [u \in {JsrR} |-> FunctionDeclaration("g", gcalls)]
  /\ state = EmptyState
  /\ runs = 0
  /\ lastRoot = Nowhere
  /\ walks = <<>>
  /\ overflow = FALSE
  /\ tasks = <<>>
  /\ visitedSet = {}
  /\ reports = <<>>
  /\ passes = <<>>
  /\ marking = <<>>

NextLocations ==
  \/ \E root \in {A} : AnalyzeFileSync(root)

SpecLocations == InitLocations /\ [][NextLocations]_vars

----------------------------------------------------------------------------
(* Reading the programs *)

\* module m has an import declaration that resolves to module o
Imports(m, o) ==
  \E i \in DOMAIN files[m].imports :
    normalizeImportPath(files[m].imports[i].source, m) = o

\* node is a call expression written directly in the body of the function
\* declaration fn of module m
InBody(m, fn, node) ==
  \E i, j \in DOMAIN files[m].body :
    /\ i < j
    /\ files[m].body[i] = Ev("enter", fn)
    /\ files[m].body[j] = node
    /\ \A k \in (i + 1)..j : files[m].body[k].op \in {"sync", "call", "member"}

\* module m imports { imported as local } from module o
ImportsAs(m, o, local, imported) ==
  \E i \in DOMAIN files[m].imports :
    /\ normalizeImportPath(files[m].imports[i].source, m) = o
    /\ \E b \in DOMAIN files[m].imports[i].bindings :
         files[m].imports[i].bindings[b] = Binding(local, imported)

----------------------------------------------------------------------------
(* Properties of the synchronous analyzer *)

\* C1: after analyzeFileSync, every recorded call edge caller -> callee whose
\* callee is in blockingFunctions has its caller in blockingFunctions, for
\* edges recorded from bare-identifier calls and from member-access calls.
C1_CallEdgeClosure ==
  \A e \in Edges(state.functionCalls) :
    e[2] \in state.blockingFunctions => e[1] \in state.blockingFunctions

\* C2: when A.ts has import { helper as h } from "./B", B.ts declares helper
\* with a Deno.*Sync call and wrapper in A.ts calls h(), then wrapper is in
\* blockingFunctions after analyzeFileSync(A.ts).
C2_RenamedImportPropagates ==
  \A helper, h, wrapper \in Names :
    ( /\ lastRoot = A
      /\ helper # h
      /\ ImportsAs(A, B, h, helper)
      /\ InBody(B, helper, Ev("sync", Undefined))
      /\ InBody(A, wrapper, Ev("call", h)) )
    => wrapper \in state.blockingFunctions

\* C5: for A.ts and B.ts importing each other, analyzeFileSync(A.ts) returns
\* without exhausting the stack, walks B.ts and A.ts once each, and when g in
\* B.ts contains a Deno.*Sync call, fn in A.ts calls g and h in B.ts calls fn,
\* all three are in blockingFunctions.
C5_ImportCycleSafe ==
  (lastRoot = A /\ Imports(A, B) /\ Imports(B, A))
  => /\ ~overflow
     /\ walks = <<B, A>>
     /\ \A fn, g, h \in Names :
          ( /\ InBody(B, g, Ev("sync", Undefined))
            /\ InBody(A, fn, Ev("call", g))
            /\ InBody(B, h, Ev("call", fn)) )
          => {fn, g, h} \subseteq state.blockingFunctions

C5_Witness ==
  /\ lastRoot = A /\ Imports(A, B) /\ Imports(B, A)
  /\ InBody(B, "g", Ev("sync", Undefined))
  /\ InBody(A, "f", Ev("call", "g"))
  /\ InBody(B, "h", Ev("call", "f"))
  /\ {"f", "g", "h"} \subseteq state.blockingFunctions

\* C6: blockingFunctions only grows: every step of the analyzer leaves it a
\* superset of what it was.
C6_BlockingSetMonotonic ==
  [][state.blockingFunctions \subseteq state'.blockingFunctions]_vars

C6_Witness ==
  /\ runs = 2
  /\ state.blockingFunctions # {}
  /\ \E m \in Modules : m \notin DOMAIN state.analyzedFiles

\* C7: a second analyzeFileSync of the same root on the same instance leaves
\* blockingFunctions as the first call left it.
C7_Idempotent ==
  [][(runs >= 1 /\ runs' = runs + 1 /\ lastRoot' = lastRoot)
       => state'.blockingFunctions = state.blockingFunctions]_vars

----------------------------------------------------------------------------
(* Properties of the asynchronous analyzer *)

\* the top-level analyzeFile call has returned
AsyncDone == tasks # <<>> /\ Settled(1)

\* the modules m reaches through one or more relative imports
RECURSIVE ImportClosure(_)
ImportClosure(S) ==
  LET next == S \cup {o \in DOMAIN files : \E m \in S : Imports(m, o)}
  IN  IF next = S THEN S ELSE ImportClosure(next)
ReachableFrom(m) == ImportClosure({o \in DOMAIN files : Imports(m, o)})

Walked(m) == \E i \in DOMAIN walks : walks[i] = m

\* C8: the asynchronous analyzeFile, whatever the order in which its reads
\* complete, ends with the blockingFunctions the synchronous analyzeFileSync
\* computes for the same files.
C8_ModeEquivalence ==
  AsyncDone =>
    state.blockingFunctions = RunSync(EmptyState, lastRoot).s.blockingFunctions

\* C9: a module that requests an import which is already in flight, and is
\* not on an import cycle with it, walks its own body only after the
\* imported module has been walked.
C9_AwaitsInFlightImport ==
  \A m, o \in DOMAIN files :
    (Walked(m) /\ Imports(m, o) /\ m \notin ReachableFrom(o) /\ m # o)
    => Walked(o)

\* C10: in one analyzeFile run, under every order of read completions, a
\* module path is read and walked by analyzeSourceFile at most once, also
\* when several modules in progress import it.
C10_AnalyzedAtMostOnce ==
  \A m \in DOMAIN files :
    /\ Cardinality({t \in DOMAIN tasks : tasks[t].path = m}) <= 1
    /\ Cardinality({i \in DOMAIN walks : walks[i] = m}) <= 1

C10_Witness ==
  /\ AsyncDone
  /\ files[A].imports = <<BareImport(B), BareImport(C)>>
  /\ Imports(B, C)
  /\ walks = <<B, C, A>>

----------------------------------------------------------------------------
(* Properties of the analyzer with unguarded marking *)

\* C4: every markAsBlocking call made during analyzeSourceFile of
\* src/analyzer.ts returns: its recursion never outgrows the call stack,
\* which holds more frames than there are distinct function names.
C4_MarkingTerminates ==
  ~overflow

----------------------------------------------------------------------------
(* Properties of the lint rule's propagation *)

\* C3: when propagateBlockingStatus has returned, every importMap entry
\* local -> (source, name) whose name is in analyzedFiles[source] has local
\* in blockingFunctions, and every caller in functionCalls that has such a
\* local, or any name of blockingFunctions, among its callees is in
\* blockingFunctions.
C3_ImportAliasClosure ==
  /\ \A localName \in DOMAIN state.importMap :
       ImportedBlocking(state, localName)
       => localName \in state.blockingFunctions
  /\ \A e \in Edges(state.functionCalls) :
       (ImportedBlocking(state, e[2]) \/ e[2] \in state.blockingFunctions)
       => e[1] \in state.blockingFunctions

C3_Witness ==
  /\ runs >= 1
  /\ \E e \in Edges(state.functionCalls) :
       /\ ImportedBlocking(state, e[2])
       /\ state.importMap[e[2]].name # e[2]
       /\ state.importMap[e[2]].name \in state.blockingFunctions
       /\ {e[1], e[2]} \subseteq state.blockingFunctions

----------------------------------------------------------------------------
(* Properties of the analysis with unreadable files *)

\* C11: a module whose read fails gets no analyzedFiles entry, a call of
\* analyzeFileSync on it returns leaving blockingFunctions, functionCalls
\* and analyzedFiles as they were, and every readable module the root
\* reaches through readable modules, and the root itself, is still walked
\* and stored.
C11_ErrorIsolation ==
  /\ ~overflow
  /\ \A m \in AsyncModules \ DOMAIN files :
       /\ m \notin DOMAIN state.analyzedFiles
       /\ RunSync(state, m).s = state
       /\ RunSync(state, m).walks = <<>>
  /\ (runs >= 1 /\ lastRoot \in DOMAIN files)
       => \A o \in ReachableFrom(lastRoot) \cup {lastRoot} :
            Walked(o) /\ o \in DOMAIN state.analyzedFiles

C11_Witness ==
  /\ lastRoot = A
  /\ B \notin DOMAIN files
  /\ files[A].imports = <<BareImport(B), BareImport(C)>>
  /\ walks = <<C, A>>
  /\ "h" \in state.blockingFunctions

----------------------------------------------------------------------------
(* Properties of the lint plugin *)

\* C12: once a file has been linted, a query isBlockingFunction(name) adds
\* no name to globalState.blockingFunctions and answers true only for a
\* name that is in blockingFunctions.
C12_QueryIsPure ==
  runs >= 1 =>
    \A name \in Names :
      /\ QueryPlugin(state, name).g.blockingFunctions = state.blockingFunctions
      /\ QueryPlugin(state, name).result => name \in state.blockingFunctions

\* C13: every report of the rule is on a call expression whose nearest
\* enclosing function declaration is async.
C13_ReportsOnlyInAsync ==
  \A r \in DOMAIN reports :
    LET body == files[lastRoot].body
    IN  /\ EnclosingDeclaration(body, reports[r].node) # Undefined
        /\ EnclosingDeclaration(body, reports[r].node)
             \in files[lastRoot].asyncFns

C13_Witness ==
  /\ runs >= 1
  /\ reports # <<>>
  /\ \E fn \in Names :
       /\ fn \in state.blockingFunctions
       /\ fn \notin files[lastRoot].asyncFns
       /\ InBody(lastRoot, fn, Ev("sync", Undefined))

\* C14: when the linted file cannot be read by the analyzer, every
\* Deno.*Sync call directly in the body of an async function declaration
\* gets exactly one report, and an async function with no sync call and no
\* call of a blocking function gets none.
C14_DirectDetectionWithoutRead ==
  (runs >= 1 /\ ~Readable(lastRoot)) =>
    /\ \A j \in DOMAIN files[lastRoot].body :
      LET body == files[lastRoot].body
          fn   == EnclosingDeclaration(body, j)
      IN  (body[j].op = "sync" /\ fn # Undefined
           /\ fn \in files[lastRoot].asyncFns)
          => Cardinality({r \in DOMAIN reports : reports[r].node = j}) = 1
    /\ \A fn \in files[lastRoot].asyncFns :
         (\A node \in CallNodes :
            InBody(lastRoot, fn, node)
            => node.op # "sync" /\ node.name \notin state.blockingFunctions)
         => \A r \in DOMAIN reports : reports[r].funcName # fn

\* C19: the reports made when a root file is linted are those a process
\* that linted nothing before would make, when the file linted before
\* neither imports nor is imported by it.
C19_SessionIsolation ==
  (/\ runs >= 2
   /\ \E X \in Modules \ {lastRoot} : X \in DOMAIN state.analyzedFiles
   /\ \A m \in Modules \ {lastRoot} :
        ~Imports(m, lastRoot) /\ ~Imports(lastRoot, m))
  => reports = LintWith(EmptyPluginState, lastRoot).reports

----------------------------------------------------------------------------
(* Properties of the walk over nested declarations *)

\* C15: a call expression at module top level, outside every function-like
\* declaration, records no call edge and marks no function as blocking,
\* also when it follows a variable declaration initialised with an arrow or
\* function expression.
C15_TopLevelCallsUnattributed ==
  runs >= 1 =>
    \A j \in DOMAIN files[A].body :
      LET body == files[A].body
          W    == WalkerAt(body, A, j)
          V    == visit(W, body[j], A, j)
      IN  (body[j].op \in {"sync", "call", "member"} /\ Scopes(body, j) = <<>>)
          => /\ V.s.functionCalls = W.s.functionCalls
             /\ V.s.blockingFunctions = W.s.blockingFunctions
             /\ V.blockingFuncs = W.blockingFuncs

\* C16: when the walk has left a named function declaration nested in an
\* outer named function declaration, the current function is the outer one
\* again for the call expressions that follow in the outer body.
C16_OuterFunctionRestored ==
  runs >= 1 =>
    \A j \in DOMAIN files[A].body :
      LET body   == files[A].body
          scopes == Scopes(body, j)
      IN  ( /\ j > 1
            /\ body[j].op \in {"sync", "call", "member"}
            /\ body[j - 1].op = "exit"
            /\ scopes # <<>>
            /\ scopes[Len(scopes)].op = "enter" )
          => WalkerAt(body, A, j).currentFunction = scopes[Len(scopes)].name

----------------------------------------------------------------------------
(* Properties of import handling in the synchronous analyzer *)

\* C17: after analysis, for every named binding  import { imported as local }
\* of a relative import of a walked module that resolves to M,
\* importMap[local] is (M, imported).
C17_AliasRecorded ==
  \A m \in Modules, M \in Modules, local \in Names, imported \in Names :
    (Walked(m) /\ ImportsAs(m, M, local, imported))
    => /\ local \in DOMAIN state.importMap
       /\ state.importMap[local] = [source |-> M, name |-> imported]

----------------------------------------------------------------------------
(* Properties of the order of marking and walking *)

\* fn is declared with a Deno.*Sync call directly in its body
DirectlyBlocking(fn) ==
  \E m \in DOMAIN files : InBody(m, fn, Ev("sync", Undefined))

\* C18: a name that is not directly blocking is added to blockingFunctions
\* only by a step taken when no module of the run still has its walk
\* pending or in progress.
C18_PropagationAfterWalks ==
  [][\A n \in state'.blockingFunctions \ state.blockingFunctions :
       DirectlyBlocking(n) \/ \A t \in DOMAIN tasks : Settled(t)]_vars

\* C20: an import whose specifier starts with "npm:" is skipped: nothing is
\* fetched for it, it leaves no importMap entry, no remoteModules entry and
\* no function location, a name it binds is not marked because of it, and
\* the imports that follow it and the body of the module are still
\* analyzed.
C20_NpmSkipped ==
  runs >= 1 =>
    /\ \A local \in DOMAIN state.importMap :
         state.importMap[local].source.scheme # "npm:"
    /\ \A u \in DOMAIN state.remoteModules : u.scheme # "npm:"
    /\ \A n \in DOMAIN state.functionLocations :
         state.functionLocations[n].file.scheme # "npm:"
    /\ (\A i \in DOMAIN files[A].imports :
          files[A].imports[i].source.scheme = "npm:")
       => state.blockingFunctions \subseteq
            {n \in {"f"} : InBody(A, "f", Ev("sync", Undefined))}
    /\ Walked(A)
    /\ Imports(A, B) => Walked(B)
    /\ \A i \in DOMAIN files[A].imports :
         files[A].imports[i].source.scheme = "jsr:"
         => files[A].imports[i].source \in DOMAIN state.remoteModules

C20_Witness ==
  /\ runs >= 1
  /\ files[A].imports = <<Import(NpmN, <<Binding("g", "g")>>), BareImport(B)>>
  /\ remote[NpmN] = FunctionDeclaration("g", <<Ev("sync", Undefined)>>)
  /\ InBody(A, "f", Ev("call", "g"))
  /\ walks = <<B, A>>
  /\ state.blockingFunctions = {"h"}
----------------------------------------------------------------------------
(* Properties of the analysis with unresolvable jsr: specifiers *)

\* the jsr: specifiers A.ts imports that cannot be resolved or fetched
FailingImports ==
  {files[A].imports[i].source : i \in DOMAIN files[A].imports}
    \cap ({JsrR, JsrQ} \ DOMAIN remote)

\* C21: when resolving or fetching a jsr: module fails,
\* fetchAndAnalyzeRemoteModuleSync returns an empty set and leaves the state
\* as it was, remoteModules gets no entry for it, importMap gets no entry
\* naming it as source, no function location names it, and the importing
\* module is still walked and stored.
C21_ResolutionFailureSkipped ==
  runs >= 1 =>
    \A u \in FailingImports :
      /\ fetchAndAnalyzeRemoteModuleSync(state, u).blockingFuncs = {}
      /\ fetchAndAnalyzeRemoteModuleSync(state, u).s = state
      /\ u \notin DOMAIN state.remoteModules
      /\ \A n \in DOMAIN state.functionLocations :
           state.functionLocations[n].file # u
      /\ \A local \in DOMAIN state.importMap :
           state.importMap[local].source # u
      /\ Walked(A) /\ A \in DOMAIN state.analyzedFiles
----------------------------------------------------------------------------
(* Properties of import aliases in the lint plugin *)

\* the (source, name) pair the last import binding of local in module m
\* stands for; Nowhere when m binds no such local name
RECURSIVE LastBindingFrom(_, _, _, _)
LastBindingFrom(m, local, i, found) ==
  IF i > Len(files[m].imports) THEN found
  ELSE LET node == files[m].imports[i]
           hits == {b \in DOMAIN node.bindings : node.bindings[b].local = local}
           last == CHOOSE b \in hits : \A c \in hits : c <= b
       IN  LastBindingFrom(m, local, i + 1,
             IF hits = {} THEN found
             ELSE [source |-> normalizeImportPathPlugin(node.source, m),
                   name   |-> node.bindings[last].imported])

LastBinding(m, local) == LastBindingFrom(m, local, 1, Nowhere)

\* C22: after a lint, every local name bound by an import of an analyzed
\* module resolves to the (source, name) pair of the last binding of that
\* name in that module, whatever the other modules import.
C22_AliasPerModule ==
  runs >= 1 =>
    \A m \in DOMAIN state.analyzedFiles, local \in LocalNames :
      LastBinding(m, local) # Nowhere
      => /\ local \in DOMAIN state.importMap
         /\ state.importMap[local] = LastBinding(m, local)
----------------------------------------------------------------------------
(* Properties of the order of declarations *)

\* the same program written in the other order
OtherOrder(root) == IF root = A THEN Permuted ELSE A

\* C23: analyzeFileSync on a new analyzer ends with the same
\* blockingFunctions for a module and for the module with its function
\* declarations and its import declarations written in another order.
C23_OrderIndependent ==
  runs = 1 =>
    state.blockingFunctions
      = RunSync(EmptyState, OtherOrder(lastRoot)).s.blockingFunctions
----------------------------------------------------------------------------
(* Properties of the fixed-point loop *)

\* the distinct names the global state holds
NamesObserved(G) ==
  Callers(G.functionCalls)
    \cup UNION {G.functionCalls[i].callees : i \in DOMAIN G.functionCalls}
    \cup DOMAIN G.importMap
    \cup {G.importMap[l].name : l \in DOMAIN G.importMap}
    \cup UNION {G.analyzedFiles[p] : p \in DOMAIN G.analyzedFiles}
    \cup G.blockingFunctions

\* C24 as claimed: propagateBlockingStatus returns, every pass that sets
\* changed adds a name, and the loop makes at most as many passes as there
\* are distinct names observed.
C24_PassesAtMostNames ==
  runs >= 1 =>
    /\ ~passes[Len(passes)].changed
    /\ \A i \in DOMAIN passes : passes[i].changed => passes[i].added # {}
    /\ Len(passes) <= Cardinality(NamesObserved(state))

\* the names added by the most recent call
Added == UNION {passes[i].added : i \in DOMAIN passes}

\* C24 amended: propagateBlockingStatus returns, every pass that sets
\* changed adds a name, and the loop makes at most one pass more than the
\* call adds names, so at most one more than there are distinct names
\* observed.
C24_PassesAtMostNamesPlusOne ==
  runs >= 1 =>
    /\ ~passes[Len(passes)].changed
    /\ \A i \in DOMAIN passes : passes[i].changed => passes[i].added # {}
    /\ Len(passes) <= Cardinality(Added) + 1
    /\ Added \subseteq NamesObserved(state)
    /\ Len(passes) <= Cardinality(NamesObserved(state)) + 1

C24_Witness ==
  /\ runs = 1
  /\ Len(passes) = 3
  /\ passes[1].added = {"g"} /\ passes[2].added = {"f"} /\ passes[3].added = {}
  /\ state.blockingFunctions = {"f", "g", "h"}
----------------------------------------------------------------------------
(* Properties of the guarded marking *)

\* the names from which name is reachable through the recorded call edges
RECURSIVE CallersClosure(_)
CallersClosure(S) ==
  LET next == S \cup {e[1] : e \in {d \in Edges(state.functionCalls) : d[2] \in S}}
  IN  IF next = S THEN S ELSE CallersClosure(next)

\* C25: a top-level markAsBlocking(f) returns without exhausting the stack,
\* runs its body at most once for each name, namely for f and for every
\* name from which f is reachable through the edges of functionCalls, and
\* leaves all of them in blockingFunctions.
C25_GuardedMarking ==
  runs >= 1 =>
    /\ ~overflow
    /\ \A i, j \in DOMAIN marking : marking[i] = marking[j] => i = j
    /\ marking # <<>>
    /\ {marking[i] : i \in DOMAIN marking} = CallersClosure({marking[1]})
    /\ CallersClosure({marking[1]}) \subseteq state.blockingFunctions

C25_Witness ==
  /\ runs = 1
  /\ marking = <<"f", "g", "h">>
  /\ <<"f", "h">> \in Edges(state.functionCalls)
  /\ <<"h", "g">> \in Edges(state.functionCalls)
  /\ <<"g", "f">> \in Edges(state.functionCalls)
  /\ <<"f", "f">> \in Edges(state.functionCalls)
  /\ state.blockingFunctions = {"f", "g", "h"}
----------------------------------------------------------------------------
(* Properties of the asynchronous traversal with jsr: imports *)

\* C26: in one analyzeFile run, under every order of completions, a jsr:
\* specifier is resolved and fetched by at most one call of
\* fetchAndAnalyzeRemoteModule and its text is walked at most once, also
\* when several import declarations name it.
C26_RemoteAtMostOnce ==
  \A url \in DOMAIN remote :
    /\ Cardinality({t \in DOMAIN tasks :
                      tasks[t].path = url /\ tasks[t].pc = "fetching"}) <= 1
    /\ Cardinality({i \in DOMAIN walks : walks[i] = url}) <= 1
----------------------------------------------------------------------------
(* Properties of the recursive query of the rule *)

\* the names some analyzed file marks directly blocking
DirectBlocking(G) == UNION {G.analyzedFiles[p] : p \in DOMAIN G.analyzedFiles}

\* one round of the closure: the local names bound to a name of S and the
\* callers of a name of S
ClosureStep(G, S) ==
  S \cup {n \in DOMAIN G.importMap : G.importMap[n].name \in S}
    \cup {G.functionCalls[i].caller : i \in
            {j \in DOMAIN G.functionCalls :
               \E c \in DOMAIN G.functionCalls[j].callees :
                 G.functionCalls[j].callees[c] \in S}}

RECURSIVE ClosureFrom(_, _)
ClosureFrom(G, S) ==
  IF ClosureStep(G, S) = S THEN S ELSE ClosureFrom(G, ClosureStep(G, S))

BlockingClosure(G) == ClosureFrom(G, DirectBlocking(G))

\* C27: after a lint, isBlockingFunction(n) returns true exactly for the
\* names n of the closure of the directly blocking names under the call
\* edges and the import aliases of the global state (the evaluation of the
\* query ends for every n, also on cyclic call graphs).
C27_QueryIsClosure ==
  runs >= 1 =>
    \A n \in LocalNames :
      QueryPlugin(state, n).result <=> n \in BlockingClosure(state)
----------------------------------------------------------------------------
(* Properties of the reports of the rule *)

\* the call expressions of the linted text with a bare-identifier callee,
\* inside an async function declaration
AsyncCallSites(filename) ==
  {j \in DOMAIN files[filename].body :
     /\ files[filename].body[j].op = "call"
     /\ EnclosingDeclaration(files[filename].body, j) # Undefined
     /\ IsAsync(filename, EnclosingDeclaration(files[filename].body, j))}

\* C28: after a lint, every call expression inside an async function
\* declaration whose callee is a bare identifier naming a directly or
\* transitively blocking function has a report, whatever the other calls of
\* the function and the order of the calls.
C28_EveryBlockingCallReported ==
  runs >= 1 =>
    \A j \in AsyncCallSites(lastRoot) :
      files[lastRoot].body[j].name \in BlockingClosure(state)
      => Report(EnclosingDeclaration(files[lastRoot].body, j), j)
           \in {reports[i] : i \in DOMAIN reports}
----------------------------------------------------------------------------
(* Properties of the single-pass rule *)

\* the index of the nearest function declaration that encloses node j, or
\* 0 at top level
RECURSIVE EnclosingIndexFrom(_, _, _, _)
EnclosingIndexFrom(body, j, i, stack) ==
  IF i >= j
  THEN IF stack = <<>> THEN 0 ELSE stack[Len(stack)]
  ELSE EnclosingIndexFrom(body, j, i + 1,
         CASE body[i].op = "enter" -> Append(stack, i)
           [] body[i].op = "exit"  -> SubSeq(stack, 1, Len(stack) - 1)
           [] OTHER -> stack)

\* the async function declarations whose body directly contains a
\* Deno.*Sync call
AsyncWithSyncCall(filename) ==
  {d \in DOMAIN files[filename].body :
     /\ files[filename].body[d].op = "enter"
     /\ IsAsync(filename, files[filename].body[d].name)
     /\ \E k \in DOMAIN files[filename].body :
          /\ files[filename].body[k].op = "sync"
          /\ EnclosingIndexFrom(files[filename].body, k, 1, <<>>) = d}

\* C29: after a lint by the no-blocking rule, every async function
\* declaration whose body directly contains a Deno.*Sync call has a report.
C29_AsyncWithSyncCallReported ==
  runs >= 1 =>
    \A d \in AsyncWithSyncCall(lastRoot) :
      Report(files[lastRoot].body[d].name, d)
        \in {reports[i] : i \in DOMAIN reports}
----------------------------------------------------------------------------
(* Properties of calls on the platform namespace *)

\* the calls in the body of the declaration of funcName
CallsIn(body, funcName) ==
  {j \in DOMAIN body :
     /\ body[j].op \in {"sync", "call", "member"}
     /\ EnclosingDeclaration(body, j) = funcName}

\* C30: after analyzeFileSync, a function whose calls of the member name n
\* are all calls Deno.n() with n not ending in "Sync" has no call edge to
\* n, and a function without a Deno.*Sync call is not in the set of
\* directly blocking functions of its file.
C30_NamespaceCallsRecordNoEdge ==
  runs >= 1 =>
    LET body == files[lastRoot].body
    IN  \A c \in {"f", "readFile"} :
          /\ \A n \in {m \in MemberNames : ~EndsWithSync(m)} :
               (\A j \in CallsIn(body, c) :
                  (body[j].member = n \/ body[j].name = n)
                  => body[j].object = "Deno")
               => <<c, n>> \notin Edges(state.functionCalls)
          /\ (\A j \in CallsIn(body, c) :
                ~(body[j].object = "Deno" /\ EndsWithSync(body[j].member)))
             => c \notin MapGetOr(state.analyzedFiles, lastRoot, {})
----------------------------------------------------------------------------
(* Properties of the per-module sets of directly blocking functions *)

\* the names the walk of a text has as currentFunction at a Deno.*Sync call
SyncAttributed(body, filePath) ==
  {WalkerAt(body, filePath, j).currentFunction :
     j \in {k \in DOMAIN body : body[k].op = "sync"}} \ {Undefined}

\* C31: after analyzeFileSync, every set stored in analyzedFiles and every
\* remoteModules[..].blockingFunctions is a subset of blockingFunctions and
\* holds only names to which the walk of that module attributed a
\* Deno.*Sync call.
C31_SeedContainment ==
  runs >= 1 =>
    /\ \A m \in DOMAIN state.analyzedFiles :
         /\ state.analyzedFiles[m] \subseteq state.blockingFunctions
         /\ state.analyzedFiles[m] \subseteq SyncAttributed(files[m].body, m)
    /\ \A u \in DOMAIN state.remoteModules :
         /\ state.remoteModules[u].blockingFunctions
              \subseteq state.blockingFunctions
         /\ state.remoteModules[u].blockingFunctions
              \subseteq SyncAttributed(remote[u], u)

\* f is blocking only through its call of the imported g: it is in no
\* per-module set
C31_Witness ==
  /\ runs = 1
  /\ files[A].imports = <<Import(JsrR, <<Binding("g", "g")>>), BareImport(B)>>
  /\ files[A].body = FunctionDeclaration("f", <<Ev("call", "g")>>)
  /\ state.blockingFunctions = {"f", "g", "h"}
  /\ state.analyzedFiles = (A :> {} @@ B :> {"h"})
  /\ state.remoteModules[JsrR].blockingFunctions = {"g"}
----------------------------------------------------------------------------
(* Properties of functionLocations *)

\* the locations the walks and the import bindings give the name n itself:
\* its declarations in the local files and in the fetched packages, and
\* line 1 of a package from which an import binds n
OwnLocations(n) ==
  UNION {{[file |-> m, line |-> j] :
            j \in {k \in DOMAIN files[m].body :
                     /\ files[m].body[k].op \in {"enter", "var"}
                     /\ files[m].body[k].name = n}} : m \in DOMAIN files}
  \cup
  UNION {{[file |-> u, line |-> j] :
            j \in {k \in DOMAIN remote[u] :
                     /\ remote[u][k].op \in {"enter", "var"}
                     /\ remote[u][k].name = n}} : u \in DOMAIN remote}
  \cup
  UNION {{[file |-> files[m].imports[i].source, line |-> 1] :
            i \in {k \in DOMAIN files[m].imports :
                     /\ files[m].imports[k].source.scheme = "jsr:"
                     /\ \E b \in DOMAIN files[m].imports[k].bindings :
                          files[m].imports[k].bindings[b].local = n}} :
           m \in DOMAIN files}

\* C32: after analyzeFileSync, every name in blockingFunctions and every
\* caller recorded in functionCalls has an entry in functionLocations, and
\* every entry is a location of the name itself: no caller has taken the
\* location of a callee.
C32_LocationCoverage ==
  runs >= 1 =>
    /\ state.blockingFunctions \subseteq DOMAIN state.functionLocations
    /\ Callers(state.functionCalls) \subseteq DOMAIN state.functionLocations
    /\ \A n \in DOMAIN state.functionLocations :
         state.functionLocations[n] \in OwnLocations(n)

\* g is blocking when h calls it: markAsBlocking("h") arrives at the caller
\* f, which has its own location
C32_Witness ==
  /\ runs = 1
  /\ files[A].imports = <<Import(JsrR, <<Binding("g", "g")>>)>>
  /\ files[A].body = FunctionDeclaration("f", <<Ev("call", "h")>>)
                       \o FunctionDeclaration("h", <<Ev("call", "g")>>)
  /\ state.blockingFunctions = {"f", "g", "h"}
  /\ state.functionLocations["f"] = [file |-> A, line |-> 1]
  /\ state.functionLocations["h"] = [file |-> A, line |-> 4]
  /\ state.functionLocations["g"] = [file |-> JsrR, line |-> 1]

====
